---------------------------- MODULE Spec2Model ----------------------------
(***************************************************************************)
(* State-machine model of the radio-scrapper backend:                      *)
(*   - InProcessQueue (utils.ts / jobQueue.ts): enqueue, kick              *)
(*   - enqueueRun, initDbWithRetry and the POST /run, POST /run/secure,    *)
(*     POST /runs/:id/retry handlers of server.ts                          *)
(*   - executeRun and analyzeExistingTranscript of runner.ts               *)
(*   - the run store behind the Db interface of db.ts                      *)
(* Every awaited call is one suspension point: the action named            *)
(* "...Resolves" or "...Rejects" is the continuation that runs when the awaited promise   *)
(* settles, together with every synchronous statement that follows it up   *)
(* to the next await.                                                      *)
(***************************************************************************)
EXTENDS Integers, Sequences, FiniteSets, TLC

(***************************************************************************)
(* Bounds of the model.                                                    *)
(***************************************************************************)
\* enqueueRun calls that pass the readiness gate in one behaviour of Spec
\* (and so the number of distinct values generateRunId returns)
MaxRuns == 2
\* the same for SpecQueue
MaxQueueRuns == 3
\* enqueueRun calls that may be suspended in db.createRun at the same time
MaxPending == 2
\* the same for SpecQueue
MaxQueuePending == 1
\* db.init failures explored before db.init is made to succeed
MaxInitFailures == 6
\* store (db.*) calls that throw in one behaviour of Spec
MaxStoreFailures == 2
\* the same for SpecQueue
MaxQueueStoreFailures == 1
\* POST /runs/:id/retry requests in one behaviour
MaxRetries == 1
\* runs, and store calls that throw, in one behaviour of SpecAnalysis
MaxAnalysisRuns == 1
MaxAnalysisStoreFailures == 1
\* POST /run and POST /run/secure requests accepted in one behaviour of SpecAuth
MaxAuthRuns == 2
\* runs in one behaviour of SpecRetry
MaxRetryRuns == 1
\* store calls of the retry handler that throw in one behaviour of SpecRetry
MaxRetryStoreFailures == 2
\* runs and retry requests in one behaviour of SpecOverlap
MaxOverlapRuns == 1
MaxOverlapRetries == 2
\* runs, retry requests and store calls of the retries that throw in one
\* behaviour of SpecNotes
MaxNoteRuns == 1
MaxNoteRetries == 1
MaxNoteStoreFailures == 1
\* the lengths of the inputs of the two pure functions in SpecLetters and
\* SpecWords
MaxLetters == 3
MaxWordChars == 3
\* runs, and store calls of the read-only endpoints that throw, in one
\* behaviour of SpecReads
MaxReadRuns == 2
MaxReadStoreFailures == 1
\* rows in one behaviour of SpecStore
MaxStoreRuns == 2
\* runs in one behaviour of SpecLogs
MaxLogRuns == 1
\* retry requests in one behaviour of SpecLogs: as many as it takes for the
\* lines of the retries to pass LogCap
MaxLogRetries == 65

(***************************************************************************)
(* null / undefined of the source.                                         *)
(***************************************************************************)
\* Strings are sequences of characters (see Strings below), so the null and
\* undefined of a string-valued expression are one-element sequences that no
\* string equals.
NULL == <<"null">>
UNDEFINED == <<"undefined">>
\* runner.ts: const UNKNOWN = 'UNKNOWN'
UNKNOWN == <<"U","N","K","N","O","W","N">>

\* Numbers are records: Num(42) is 0.42 (confidences are kept in hundredths),
\* NaN is Number.NaN, NullNum the null of a number-valued column.
Num(n) == [kind |-> "num", v |-> n]
NaN == [kind |-> "NaN", v |-> 0]
NullNum == [kind |-> "null", v |-> 0]

\* config.durationSeconds (config.ts: Number(process.env.DURATION_SECONDS || 120))
DurationSeconds == 120

VARIABLES
  config,       \* the config object: fixed when the process starts
  table,        \* the columns of the runs table of the database, NoTable when
                \* the database has no such table
  exited,       \* the process has terminated
  dbReady,      \* server.ts: let dbReady
  dbError,      \* server.ts: let dbError
  initPc,       \* position of initDbWithRetry
  retryCount,   \* initDbWithRetry: let retryCount
  delay,        \* initDbWithRetry: the delay of the timer being awaited (ms)
  runs,         \* the runs table: id -> row, or NULL when there is no row
  queue,        \* InProcessQueue.queue: the waiting tasks (indices into tasks)
  running,      \* InProcessQueue.running
  tasks,        \* every task passed to InProcessQueue.enqueue, in that order
  started,      \* the task indices in the order in which kick called them
  pending,      \* enqueueRun calls suspended in `await db.createRun(id)`
  calls,        \* run ids in the order in which enqueueRun generated them
  retries,      \* POST /runs/:id/retry handlers in flight
  retryCalls,   \* POST /runs/:id/retry requests received so far
  lastResp,     \* the answer sent by the latest step (a run trigger or a retry)
  storeFailures \* store calls that have thrown so far

vars == <<config, table, exited, dbReady, dbError, initPc, retryCount, delay, runs, queue,
          running, tasks, started, pending, calls, retries, retryCalls,
          lastResp, storeFailures>>

\* the process is running
Alive == ~exited

\* a promise that nobody handles rejects: once the microtask queue is empty
\* the runtime raises the error as an uncaught exception and the process
\* terminates
unhandledRejection == exited' = TRUE


(***************************************************************************)
(* Strings.  A JavaScript string is a sequence of one-character strings;   *)
(* Code gives the UTF-16 code unit of a character of the model's alphabet. *)
(***************************************************************************)
Str == Seq(STRING)

UpperLetters == <<"A","B","C","D","E","F","G","H","I","J","K","L","M",
                  "N","O","P","Q","R","S","T","U","V","W","X","Y","Z">>
LowerLetters == <<"a","b","c","d","e","f","g","h","i","j","k","l","m",
                  "n","o","p","q","r","s","t","u","v","w","x","y","z">>
DigitChars == <<"0","1","2","3","4","5","6","7","8","9">>

\* `const x = e; ... x ...`: B of the value of e, which is computed once
Bind(e, B(_)) == CHOOSE v \in {B(x) : x \in {e}} : TRUE

IndexIn(seq, c) == CHOOSE i \in 1..Len(seq) : seq[i] = c
Range(seq) == {seq[i] : i \in 1..Len(seq)}

UpperSet == Range(UpperLetters)
LowerSet == Range(LowerLetters)
DigitSet == Range(DigitChars)
SpaceSet == {" ", "\t", "\n", "\r"}
\* the characters the strings of the model are made of
Alphabet == UpperSet \cup LowerSet \cup DigitSet \cup SpaceSet
            \cup {"!", ",", "-", ".", ":", "?", "_"}

IsUpper(c) == c \in UpperSet
IsLower(c) == c \in LowerSet
IsLetter(c) == IsUpper(c) \/ IsLower(c)
IsDigit(c) == c \in DigitSet
\* the regular-expression class \w
IsWordChar(c) == IsLetter(c) \/ IsDigit(c) \/ c = "_"
\* the regular-expression class \s, and what String.prototype.trim removes
IsSpace(c) == c \in SpaceSet

\* the UTF-16 code unit of each character of the alphabet
CodeTable ==
  [c \in Alphabet |->
     IF IsUpper(c) THEN 64 + IndexIn(UpperLetters, c)
     ELSE IF IsLower(c) THEN 96 + IndexIn(LowerLetters, c)
     ELSE IF IsDigit(c) THEN 47 + IndexIn(DigitChars, c)
     ELSE CASE c = "\t" -> 9  [] c = "\n" -> 10 [] c = "\r" -> 13
            [] c = " " -> 32  [] c = "!" -> 33  [] c = "," -> 44
            [] c = "-" -> 45  [] c = "." -> 46  [] c = ":" -> 58
            [] c = "?" -> 63  [] c = "_" -> 95]
Code(c) == CodeTable[c]

UpperTable ==
  [c \in Alphabet |-> IF IsLower(c) THEN UpperLetters[IndexIn(LowerLetters, c)] ELSE c]
LowerTable ==
  [c \in Alphabet |-> IF IsUpper(c) THEN LowerLetters[IndexIn(UpperLetters, c)] ELSE c]
ToUpperChar(c) == UpperTable[c]
ToLowerChar(c) == LowerTable[c]
\* String.prototype.toUpperCase / toLowerCase
ToUpperCase(s) == [i \in 1..Len(s) |-> ToUpperChar(s[i])]
ToLowerCase(s) == [i \in 1..Len(s) |-> ToLowerChar(s[i])]

RECURSIVE TrimStart(_)
TrimStart(s) == IF s # <<>> /\ IsSpace(Head(s)) THEN TrimStart(Tail(s)) ELSE s
RECURSIVE TrimEnd(_)
TrimEnd(s) ==
  IF s # <<>> /\ IsSpace(s[Len(s)]) THEN TrimEnd(SubSeq(s, 1, Len(s) - 1)) ELSE s
\* String.prototype.trim
Trim(s) == TrimEnd(TrimStart(s))

\* s.replace(/[^A-Za-z]/g, '') and s.replace(/[^A-Za-z0-9]/g, '')
IsAlnum(c) == IsLetter(c) \/ IsDigit(c)
KeepLetters(s) == SelectSeq(s, IsLetter)
KeepAlnum(s) == SelectSeq(s, IsAlnum)

\* s.split(/\s+/): the pieces of s between maximal runs of white space
\* (a leading or trailing run leaves an empty first or last piece)
RECURSIVE SplitWs(_, _, _)
SplitWs(s, cur, inGap) ==
  IF s = <<>> THEN <<cur>>
  ELSE IF IsSpace(Head(s))
       THEN IF inGap THEN SplitWs(Tail(s), cur, TRUE)
                     ELSE <<cur>> \o SplitWs(Tail(s), <<>>, TRUE)
       ELSE SplitWs(Tail(s), Append(cur, Head(s)), FALSE)
SplitWhitespace(s) == SplitWs(s, <<>>, FALSE)

\* words.join(sep)
RECURSIVE Join(_, _)
Join(words, sep) ==
  IF words = <<>> THEN <<>>
  ELSE IF Len(words) = 1 THEN words[1]
       ELSE words[1] \o sep \o Join(Tail(words), sep)

\* the regular-expression assertion \b just before the character at index p
\* (p = Len(s) + 1 is the end of the string)
Boundary(s, p) ==
  LET before == p > 1 /\ p - 1 <= Len(s) /\ IsWordChar(s[p - 1])
      after  == p >= 1 /\ p <= Len(s) /\ IsWordChar(s[p])
  IN  before # after

\* /\b(lit)\b/i .test(w) for some lit of the set lits of lower-case strings
TestWordI(w, lits) ==
  LET lower == ToLowerCase(w)
  IN  \E lit \in lits : \E p \in 1..(Len(w) - Len(lit) + 1) :
         /\ SubSeq(lower, p, p + Len(lit) - 1) = lit
         /\ Boundary(w, p)
         /\ Boundary(w, p + Len(lit))

\* s.split('').sort().join(''): the characters of s by ascending code unit
RECURSIVE SortChars(_)
SortChars(s) ==
  IF s = <<>> THEN <<>>
  ELSE LET m == CHOOSE i \in 1..Len(s) :
                  \A j \in 1..Len(s) :
                     \/ Code(s[i]) < Code(s[j])
                     \/ (Code(s[i]) = Code(s[j]) /\ i <= j)
           rest == [k \in 1..(Len(s) - 1) |-> IF k < m THEN s[k] ELSE s[k + 1]]
       IN  <<s[m]>> \o SortChars(rest)

Min(a, b) == IF a < b THEN a ELSE b
Max(a, b) == IF a > b THEN a ELSE b

(***************************************************************************)
(* runner.ts: the letter/context extractor and the local resolver.         *)
(***************************************************************************)
ScramblStems == {<<"s","c","r","a","m","b","l">>, <<"s","c","r","a","m","b","l","e">>, <<"s","c","r","a","m","b","l","e","d">>, <<"s","c","r","a","m","b","l","i","n","g">>}
\* /\bscrambl(?:e|ed|ing)\b/i
CluePattern1 == ScramblStems \ {<<"s","c","r","a","m","b","l">>}
\* /\bde[- ]?scrambl(?:e|ed|ing)?\b/i
CluePattern2 == {pre \o st : pre \in {<<"d","e">>, <<"d","e","-">>, <<"d","e"," ">>}, st \in ScramblStems}
\* /\bunscrambl(?:e|ed|ing)?\b/i
CluePattern3 == {<<"u","n">> \o st : st \in ScramblStems}
\* /\bkeyword\b/i
CluePattern4 == {<<"k","e","y","w","o","r","d">>}

\* (?:[a-zA-Z]-){k}[a-zA-Z] matches w from index p
HyphenRunAt(w, p, k) ==
  /\ p + 2 * k <= Len(w)
  /\ \A j \in 0..(k - 1) : IsLetter(w[p + 2 * j]) /\ w[p + 2 * j + 1] = "-"
  /\ IsLetter(w[p + 2 * k])
\* /\b(?:[a-zA-Z]-){2,}[a-zA-Z]\b/ .test(w)
CluePattern5(w) ==
  \E p \in 1..Len(w) : \E k \in 2..Len(w) :
     Boundary(w, p) /\ HyphenRunAt(w, p, k) /\ Boundary(w, p + 2 * k + 1)

\* cluePatterns.some((pattern) => pattern.test(word))
IsClueWord(w) ==
  \/ TestWordI(w, CluePattern1)
  \/ TestWordI(w, CluePattern2)
  \/ TestWordI(w, CluePattern3)
  \/ TestWordI(w, CluePattern4)
  \/ CluePattern5(w)

\* transcript.trim() ? transcript.trim().split(/\s+/) : []
TranscriptWords(transcript) ==
  IF Trim(transcript) = <<>> THEN <<>> ELSE SplitWhitespace(Trim(transcript))

\* words.findIndex(...), 1-based; 0 when no word matches
ScrambleIndex(words) ==
  IF \E i \in 1..Len(words) : IsClueWord(words[i])
  THEN CHOOSE i \in 1..Len(words) :
         IsClueWord(words[i]) /\ \A j \in 1..(i - 1) : ~IsClueWord(words[j])
  ELSE 0

extractScrambleContext(transcript) ==
  LET words == TranscriptWords(transcript)
      i == ScrambleIndex(words)
  IN  IF i = 0 THEN [snippet |-> <<>>, found |-> FALSE]
      ELSE [snippet |-> Join(SubSeq(words, Max(1, i - 20), Min(Len(words), i + 20)),
                             <<" ">>),
            found |-> TRUE]

\* [A-Za-z](?:[-\s][A-Za-z]){k} matches text from index p, between two \b
LetterRunAt(text, p, k) ==
  /\ p + 2 * k <= Len(text)
  /\ IsLetter(text[p])
  /\ \A j \in 1..k :
        /\ (text[p + 2 * j - 1] = "-" \/ IsSpace(text[p + 2 * j - 1]))
        /\ IsLetter(text[p + 2 * j])
  /\ Boundary(text, p)
  /\ Boundary(text, p + 2 * k + 1)

\* text.match(/\b([A-Za-z](?:[-\s][A-Za-z]){2,})\b/): the leftmost start, and
\* from it the longest repetition after which \b holds
extractHyphenLetters(text) ==
  LET Starts == {p \in 1..Len(text) : \E k \in 2..Len(text) : LetterRunAt(text, p, k)}
  IN  IF Starts = {} THEN NULL
      ELSE LET p == CHOOSE q \in Starts : \A r \in Starts : q <= r
               k == CHOOSE n \in 2..Len(text) :
                      /\ LetterRunAt(text, p, n)
                      /\ \A m \in 2..Len(text) : LetterRunAt(text, p, m) => m <= n
               letters == ToUpperCase(KeepLetters(SubSeq(text, p, p + 2 * k)))
           IN  IF Len(letters) >= 3 THEN letters ELSE NULL

\* the letters in the order they are given
lettersAsGiven(s) == s

sortLetters(s) == SortChars(s)

Candidates == <<<<"R","O","S","I","E">>,
                <<"A","N","G","U","S">>,
                <<"A","C","D","C">>,
                <<"H","I","G","H","W","A","Y">>,
                <<"H","E","L","L","S">>,
                <<"B","E","L","L","S">>,
                <<"T","H","U","N","D","E","R">>,
                <<"B","A","C","K">>,
                <<"B","L","A","C","K">>,
                <<"S","H","O","O","K">>,
                <<"T","N","T">>>>

\* sortLetters(w) of every candidate w
CandidateKeys == [i \in 1..Len(Candidates) |-> sortLetters(Candidates[i])]

localDecodeFromLetters(letters) ==
  LET key == sortLetters(letters)
      Hits == {i \in 1..Len(Candidates) : CandidateKeys[i] = key}
  IN  IF Hits = {} THEN UNKNOWN
      ELSE ToUpperCase(Candidates[CHOOSE i \in Hits : \A j \in Hits : i <= j])

\* the first word as it is, neither cleaned nor upper-cased
firstWord(value) == SplitWhitespace(Trim(value))[1]

\* a normalisation whose sentinel is not a word
toSingleWordOrNotAvailable(value) ==
  LET single == ToUpperCase(KeepAlnum(SplitWhitespace(Trim(value))[1]))
  IN  IF single = <<>> THEN <<"N", "/", "A">> ELSE single

toSingleWordUpper(value) ==
  LET single == ToUpperCase(KeepAlnum(SplitWhitespace(Trim(value))[1]))
  IN  IF single = <<>> THEN UNKNOWN ELSE single

(***************************************************************************)
(* runner.ts: the remote decode client.  A response of the completion      *)
(* endpoint is an input: kind "httpError" is a non-success status (or a    *)
(* rejected fetch), "noContent" a body without choices[0].message.content, *)
(* "malformed" a content that JSON.parse rejects, "content" a content that *)
(* is taken as text (snippet decode) or parsed (full analysis).            *)
(***************************************************************************)
HttpErrorMessage == "OpenAI decode failed: 500"

\* the result of an awaited call: a value, or a thrown message
Returned(v) == [threw |-> FALSE, value |-> v, message |-> ""]
Threw(m) == [threw |-> TRUE, value |-> NULL, message |-> m]

decodeSnippet(resp) ==
  IF resp.kind = "httpError" THEN Threw(HttpErrorMessage)
  ELSE IF resp.kind = "noContent" \/ resp.text = <<>> THEN Returned(UNKNOWN)
  ELSE Returned(toSingleWordUpper(resp.text))

\* x || UNKNOWN for a string or undefined x
OrUnknown(x) == IF x = UNDEFINED \/ x = NULL \/ x = <<>> THEN UNKNOWN ELSE x

\* Number(x ?? 0) for x a number, null/undefined, or a non-numeric string
NumberOrZero(x) ==
  IF x.kind = "num" THEN x
  ELSE IF x.kind \in {"null", "undefined"} THEN Num(0)
  ELSE NaN

DEFAULT_ANALYSIS ==
  [decoded_summary |-> UNKNOWN, likely_acdc_reference |-> UNKNOWN,
   confidence_0_to_1 |-> Num(0)]

analyzeTranscript(resp) ==
  IF resp.kind = "httpError" THEN Threw(HttpErrorMessage)
  ELSE IF resp.kind = "noContent" THEN Returned(DEFAULT_ANALYSIS)
  ELSE IF resp.kind = "malformed"
  THEN Returned([decoded_summary |-> toSingleWordUpper(UNKNOWN),
                 likely_acdc_reference |-> toSingleWordUpper(UNKNOWN),
                 confidence_0_to_1 |-> Num(0)])
  ELSE Returned([decoded_summary |-> toSingleWordUpper(OrUnknown(resp.decoded_summary)),
                 likely_acdc_reference |->
                    toSingleWordUpper(OrUnknown(resp.likely_acdc_reference)),
                 confidence_0_to_1 |-> NumberOrZero(resp.confidence_0_to_1)])

(***************************************************************************)
(* runner.ts: analyzeExistingTranscript.  errorNote is the sequence of the *)
(* notes that the source joins with ' | ' (NULL when there is none);       *)
(* analysisLogs is the sequence of the pushed lines, each named by its     *)
(* fixed text.                                                             *)
(***************************************************************************)
NoteKeyMissing ==
  "Scramble detected but OPENAI_API_KEY is not set (or empty after trim); OpenAI decode skipped."
NoteSnippetFailed == "OpenAI decode failed; using local fallback if available."
NoteAnalysisFailed == "OpenAI analysis failed."

\* a note that replaces the notes before it
replaceNote(errorNote, note) == <<note>>

\* (errorNote ? `${errorNote} | ` : '') + note
AppendNote(errorNote, note) ==
  IF errorNote = NULL THEN <<note>> ELSE Append(errorNote, note)

\* Number.isFinite(conf) ? Math.max(0, Math.min(1, conf)) : 0
ClampConfidence(conf) ==
  IF conf.kind = "num" THEN Num(Max(0, Min(100, conf.v))) ELSE Num(0)

\* what the stages of analyzeExistingTranscript leave in its variables: context
\* and letters after the extractor, local after the local resolver, snip and
\* full the outcomes of the two remote calls
analysisResult(context, letters, local, openAiApiKey, snip, full) ==
  LET logs1   == <<IF context.found THEN "Scramble context found: true"
                                    ELSE "Scramble context found: false">>
                 \o (IF ~context.found THEN <<>>
                     ELSE IF letters # NULL THEN <<"Local letter decode candidate">>
                     ELSE <<"No hyphen-letter pattern found for local decode.">>)
      skip    == context.found /\ openAiApiKey = ""
      note1   == IF skip THEN <<NoteKeyMissing>> ELSE NULL
      logs2   == logs1 \o (IF skip
                           THEN <<"OpenAI decode skipped because OPENAI_API_KEY is missing.">>
                           ELSE <<>>)
      remote  == context.found /\ openAiApiKey # ""
      decoded == IF remote /\ ~snip.threw
                 THEN (IF snip.value = <<>> THEN local ELSE snip.value)
                 ELSE local
      note2   == IF remote /\ snip.threw THEN AppendNote(NULL, NoteSnippetFailed) ELSE note1
      logs3   == logs2 \o (IF ~remote THEN <<>>
                           ELSE IF snip.threw THEN <<"OpenAI snippet decode failed">>
                           ELSE <<"OpenAI snippet decode returned">>)
      analysis == IF remote /\ ~full.threw THEN full.value ELSE DEFAULT_ANALYSIS
      note3   == IF remote /\ full.threw THEN AppendNote(note2, NoteAnalysisFailed) ELSE note2
      logs4   == logs3 \o (IF ~remote THEN <<>>
                           ELSE IF full.threw THEN <<"OpenAI full analysis failed">>
                           ELSE <<"OpenAI full analysis likely">>)
  IN  [decodedSummary |-> toSingleWordUpper(decoded),
       likely |-> toSingleWordUpper(OrUnknown(analysis.likely_acdc_reference)),
       confidence |-> ClampConfidence(NumberOrZero(analysis.confidence_0_to_1)),
       errorNote |-> note3,
       analysisLogs |-> Append(logs4, "Final normalized values")]

analyzeExistingTranscript(transcript, openAiApiKey, snippetResp, fullResp) ==
  Bind(extractScrambleContext(transcript), LAMBDA context :
    Bind(IF context.found THEN extractHyphenLetters(context.snippet) ELSE NULL,
         LAMBDA letters :
      Bind(IF context.found /\ letters # NULL
           THEN localDecodeFromLetters(letters) ELSE UNKNOWN, LAMBDA local :
        Bind(decodeSnippet(snippetResp), LAMBDA snip :
          Bind(analyzeTranscript(fullResp), LAMBDA full :
            analysisResult(context, letters, local, openAiApiKey, snip, full))))))

(***************************************************************************)
(* db.ts: the run store.  table is the set of the columns of the runs      *)
(* table, runs maps the id of every row of the table to the row, a record  *)
(* with one field for each column.  A patch is a record [defined,          *)
(* undefined]: the entries of the object whose value is not undefined, and *)
(* the keys whose value is.                                                *)
(***************************************************************************)
\* the columns of CREATE TABLE IF NOT EXISTS runs (...)
Columns == {"id", "created_at_utc", "status", "duration_seconds", "transcript",
            "decoded_summary", "likely_acdc_reference", "confidence", "error"}

\* the database has no runs table
NoTable == {}

\* the runs table of a database that holds one when the process starts: no
\* statement of the program adds a column, so this is the only table that has
\* the run_logs column which runner.ts and server.ts write
LogColumns == Columns \cup {"run_logs"}

\* the databases the process is started on
Tables == {NoTable, LogColumns}

\* db.init: the table is created unless there is one (IF NOT EXISTS)
init(t) == IF t = NoTable THEN Columns ELSE t

\* INSERT INTO runs (id, created_at_utc, status, duration_seconds) into the
\* table that db.init creates: the other columns take their default, NULL
NewRow(id, now) ==
  [id |-> id, created_at_utc |-> now, status |-> "queued",
   duration_seconds |-> DurationSeconds, transcript |-> NULL,
   decoded_summary |-> NULL, likely_acdc_reference |-> NULL,
   confidence |-> NullNum, error |-> NULL]

\* the same INSERT into the table t: a column that the statement does not name
\* takes its default, NULL
InsertedRow(t, id, now) ==
  [c \in t |-> IF c \in DOMAIN NewRow(id, now) THEN NewRow(id, now)[c] ELSE NULL]

\* row.c of a row that SELECT * returned: undefined when the table has no
\* column c
Field(row, c) == IF c \in DOMAIN row THEN row[c] ELSE UNDEFINED

\* NOW(): a logical clock, the number of rows inserted so far
Now(rs) == Cardinality(DOMAIN rs) + 1

\* a table without primary key
noPrimaryKey(rs, id) == FALSE

\* createRun, which enqueueRun calls once db.init has returned: the primary
\* key rejects an id that is already in the table
createRunThrows(rs, id) == id \in DOMAIN rs
createRun(t, rs, id) ==
  [i \in DOMAIN rs \cup {id} |-> IF i = id THEN InsertedRow(t, id, Now(rs)) ELSE rs[i]]

Patch(fields) == [defined |-> fields, undefined |-> {}]

\* entries that keep the keys whose value is undefined, with the value null
undefinedAsNull(patch) ==
  [c \in DOMAIN patch.defined \cup patch.undefined |->
     IF c \in DOMAIN patch.defined THEN patch.defined[c] ELSE NULL]

\* Object.entries(patch).filter(([, v]) => v !== undefined)
PatchEntries(patch) == patch.defined

\* UPDATE runs SET <entries> WHERE id = <id> names a column that the table
\* does not have: the statement is rejected and updateRun throws
updateRunThrows(t, patch) == ~(DOMAIN PatchEntries(patch) \subseteq t)

\* the message of that error
ColumnErrorMessage == "no such column: run_logs"

\* UPDATE runs SET <entries> WHERE id = <id>, when the statement is accepted
updateRun(rs, id, patch) ==
  LET entries == PatchEntries(patch)
  IN  IF DOMAIN entries = {} THEN rs
      ELSE [i \in DOMAIN rs |->
              IF i = id
              THEN [c \in DOMAIN rs[i] |->
                      IF c \in DOMAIN entries THEN entries[c] ELSE rs[i][c]]
              ELSE rs[i]]

\* SELECT * FROM runs WHERE id = <id> on a database without runs table: the
\* statement is rejected and getRun throws
getRunThrows(t) == t = NoTable

\* SELECT * FROM runs WHERE id = <id>: result.rows
getRun(rs, id) == IF id \in DOMAIN rs THEN <<rs[id]>> ELSE <<>>

StoreErrorMessage == "store unavailable"

\* the message of the error that `await db.updateRun(id, patch)` throws
UpdateErrorMessage(t, patch) ==
  IF updateRunThrows(t, patch) THEN ColumnErrorMessage ELSE StoreErrorMessage

(***************************************************************************)
(* runner.ts: createRunLogger.  A log line is its level and its fixed      *)
(* text; the timestamp is left out.  run_logs, the lines joined by '\n',   *)
(* is the sequence of the lines.                                           *)
(***************************************************************************)
LogCap == 400

LoggerAppend(logs, level, message) ==
  LET pushed == Append(logs, "[" \o level \o "] " \o message)
  IN  IF Len(pushed) > LogCap
      THEN SubSeq(pushed, Len(pushed) - LogCap + 1, Len(pushed))
      ELSE pushed

RECURSIVE LoggerAppendAll(_, _, _)
LoggerAppendAll(logs, level, messages) ==
  IF messages = <<>> THEN logs
  ELSE LoggerAppendAll(LoggerAppend(logs, level, Head(messages)), level, Tail(messages))

(***************************************************************************)
(* utils.ts: InProcessQueue.  The operators work on the record             *)
(* [queue, running, tasks, started]: the two fields of the class, the      *)
(* tasks ever enqueued (a task is the closure () => executeRun(db, id)     *)
(* with the state of that executeRun call) and the order of their starts.  *)
(***************************************************************************)
NoResult ==
  [decodedSummary |-> NULL, likely |-> NULL, confidence |-> NullNum,
   errorNote |-> NULL, analysisLogs |-> <<>>]

\* the closure async () => executeRun(db, id), not yet called
NewTask(id) ==
  [id |-> id, pc |-> "waiting", logs |-> <<>>, transcript |-> NULL,
   res |-> NoResult, analyzed |-> FALSE, threw |-> "", message |-> ""]

\* executeRun up to its first await: logger.info('Run started.') and the call
\* of db.updateRun(runId, {status: 'running', run_logs: ''})
executeRunStart(task) ==
  [task EXCEPT !.pc = "updateRunning",
               !.logs = LoggerAppend(@, "INFO", "Run started.")]

\* the task at the head of the waiting list is taken off it and called
startNext(q) ==
  LET next == Head(q.queue)
  IN  [q EXCEPT !.queue = Tail(@),
                !.running = TRUE,
                !.tasks[next] = executeRunStart(@),
                !.started = Append(@, next)]

\* a kick that does not look at the running flag
kickUnguarded(q) == IF q.queue = <<>> THEN q ELSE startNext(q)

kick(q) ==
  IF q.running THEN q
  ELSE IF q.queue = <<>> THEN q
  ELSE startNext(q)

\* an enqueue that puts the task in front of the waiting ones
enqueueFront(q, task) ==
  kick([q EXCEPT !.tasks = Append(@, task),
                 !.queue = <<Len(q.tasks) + 1>> \o @])

\* an enqueue that pushes the task and does not kick
enqueueOnly(q, task) ==
  [q EXCEPT !.tasks = Append(@, task),
            !.queue = Append(@, Len(q.tasks) + 1)]

\* an enqueue that pushes the task twice
enqueueTwice(q, task) ==
  kick([q EXCEPT !.tasks = Append(Append(@, task), task),
                 !.queue = @ \o <<Len(q.tasks) + 1, Len(q.tasks) + 2>>])

enqueue(q, task) ==
  kick([q EXCEPT !.tasks = Append(@, task),
                 !.queue = Append(@, Len(q.tasks) + 1)])

\* a finally block that clears the flag and does not kick
clearRunning(q) == [q EXCEPT !.running = FALSE]

\* kick after `await next()` has settled: the finally block
kickFinally(q) == kick([q EXCEPT !.running = FALSE])

\* the task k settles with outcome "resolved" or "rejected", and the kick
\* that awaits it resumes
TaskSettles(q, k, outcome) == kickFinally([q EXCEPT !.tasks[k].pc = outcome])

TheQueue == [queue |-> queue, running |-> running, tasks |-> tasks, started |-> started]
SetQueue(q) ==
  /\ queue' = q.queue
  /\ running' = q.running
  /\ tasks' = q.tasks
  /\ started' = q.started

(***************************************************************************)
(* The initial state: the process has started, main() has registered the   *)
(* cron jobs and the server listens; nothing has run yet.                  *)
(***************************************************************************)
\* config.ts: the values the environment can give the three settings the
\* handlers read
Configs ==
  [backendApiKey : {"", "secret"}, requireApiKey : BOOLEAN,
   openAiApiKey : {"", "sk-test"}]

\* lastResp is the answer sent by the step that led to the state, NoResp when
\* that step answered no request
NoResp == [ep |-> "none", code |-> "none"]

\* the configurations of Spec: the key of POST /run/secure is set, POST /run is
\* open (REQUIRE_API_KEY is not 'true'), the decode credential is set or not
RunConfigs == {c \in Configs : c.backendApiKey = "secret" /\ ~c.requireApiKey}

\* the state of the process when main starts
InitState ==
  /\ table \in Tables
  /\ exited = FALSE
  /\ dbReady = FALSE
  /\ dbError = ""
  /\ initPc = "notStarted"
  /\ retryCount = 0
  /\ delay = 0
  /\ runs = <<>>
  /\ queue = <<>>
  /\ running = FALSE
  /\ tasks = <<>>
  /\ started = <<>>
  /\ pending = <<>>
  /\ calls = <<>>
  /\ retries = <<>>
  /\ retryCalls = 0
  /\ lastResp = NoResp
  /\ storeFailures = 0

Init == config \in RunConfigs /\ InitState

NoAnswer == lastResp' = NoResp

(***************************************************************************)
(* server.ts: initDbWithRetry.                                             *)
(***************************************************************************)
DB_RETRY_DELAYS_MS == <<2000, 5000, 10000, 20000>>
DefaultRetryDelayMs == 30000

\* the delay read after `retryCount += 1` instead of before it
RetryDelayAfterIncrement(count) ==
  IF count + 2 <= Len(DB_RETRY_DELAYS_MS) THEN DB_RETRY_DELAYS_MS[count + 2]
  ELSE DefaultRetryDelayMs

\* DB_RETRY_DELAYS_MS[retryCount] ?? 30000  (retryCount counts from 0)
RetryDelay(count) ==
  IF count + 1 <= Len(DB_RETRY_DELAYS_MS) THEN DB_RETRY_DELAYS_MS[count + 1]
  ELSE DefaultRetryDelayMs

\* the loop head `while (!dbReady)` followed by the call of db.init
InitLoopHead == IF dbReady THEN "returned" ELSE "init"

\* app.listen's callback: void initDbWithRetry()
ListenCallback ==
  /\ Alive
  /\ initPc = "notStarted"
  /\ initPc' = InitLoopHead
  /\ NoAnswer
  /\ UNCHANGED <<config, table, exited, dbReady, dbError, retryCount, delay, runs, queue, running,
                 tasks, started, pending, calls, retries, retryCalls, storeFailures>>

\* await db.init() resolves: the table exists, dbReady and dbError are set and the function
\* returns, which ends the life of its local retryCount and of its timer
DbInitResolves ==
  /\ Alive
  /\ initPc = "init"
  /\ table' = init(table)
  /\ dbReady' = TRUE
  /\ dbError' = ""
  /\ initPc' = "returned"
  /\ retryCount' = 0
  /\ delay' = 0
  /\ NoAnswer
  /\ UNCHANGED <<config, exited, runs, queue, running, tasks, started,
                 pending, calls, retries, retryCalls, storeFailures>>

\* await db.init() rejects: the catch block up to the await of the timer
DbInitRejects ==
  /\ Alive
  /\ initPc = "init"
  /\ retryCount < MaxInitFailures
  /\ dbError' = "init failed"
  /\ delay' = RetryDelay(retryCount)
  /\ retryCount' = retryCount + 1
  /\ initPc' = "sleep"
  /\ NoAnswer
  /\ UNCHANGED <<config, table, exited, dbReady, runs, queue, running, tasks, started, pending,
                 calls, retries, retryCalls, storeFailures>>

\* the timer of `await new Promise((resolve) => setTimeout(resolve, delay))`
RetryTimerFires ==
  /\ Alive
  /\ initPc = "sleep"
  /\ initPc' = InitLoopHead
  /\ NoAnswer
  /\ UNCHANGED <<config, table, exited, dbReady, dbError, retryCount, delay, runs, queue, running,
                 tasks, started, pending, calls, retries, retryCalls, storeFailures>>

(***************************************************************************)
(* server.ts: the run triggers and enqueueRun.                             *)
(***************************************************************************)
\* req.header('X-API-KEY') when the header is absent
NoHeader == "<undefined>"
HeaderKeys == {NoHeader, "", "secret", "wrong"}

\* requireApiKey calls next()
requireApiKey(key) == ~(config.backendApiKey = "" \/ key # config.backendApiKey)

\* a POST /run that checks the key whatever REQUIRE_API_KEY is
alwaysRequireApiKey(key) == requireApiKey(key)

\* maybeRequireApiKey calls next()
maybeRequireApiKey(key) == IF ~config.requireApiKey THEN TRUE ELSE requireApiKey(key)

Authorized(ep, key) == IF ep = "secure" THEN requireApiKey(key) ELSE maybeRequireApiKey(key)

\* an enqueueRun without the readiness gate
gateAbsent == FALSE

\* a readiness gate that lets the calls through while the store is not ready
gateInverted == dbReady

\* enqueueRun throws DB_NOT_READY
enqueueRunNotReady == ~dbReady

\* generateRunId: `${Date.now()}-${random}` can be any value, one that an earlier
\* call returned or a new one.  Ids are opaque, so the new values are named
\* 1, 2, ... in the order in which they first appear.
generateRunId == 1..(Cardinality(Range(calls)) + 1)

\* enqueueRun(source) up to `await db.createRun(id)`, id being the value of
\* generateRunId()
enqueueRunCall(source, id) ==
  /\ pending' = Append(pending, [id |-> id, source |-> source])
  /\ calls' = Append(calls, id)

\* what a trigger answers when enqueueRun throws DB_NOT_READY, throws anything
\* else, or returns: the HTTP status of the two endpoints, and what the cron
\* callback does
NotReadyAnswer(source) ==
  [ep |-> source, code |-> IF source = "scheduled" THEN "skipped" ELSE "503"]
ErrorAnswer(source) ==
  [ep |-> source, code |-> IF source = "scheduled" THEN "error" ELSE "500"]
QueuedAnswer(source) ==
  [ep |-> source, code |-> IF source = "scheduled" THEN "queued" ELSE "202"]

\* the enqueueRun calls of one behaviour, and those suspended at a time, are
\* bounded
MayCall(maxRuns, maxPending) ==
  Len(pending) < maxPending /\ Len(calls) < maxRuns

\* POST /run (ep = "run") and POST /run/secure (ep = "secure") with the
\* X-API-KEY header key; id is the value generateRunId returns if it is called
PostRun(ep, key, id) ==
  /\ Alive
  /\ IF ~Authorized(ep, key)
     THEN /\ lastResp' = [ep |-> "manual", code |-> "401"]
          /\ UNCHANGED <<pending, calls>>
     ELSE IF enqueueRunNotReady
     THEN /\ lastResp' = NotReadyAnswer("manual")
          /\ UNCHANGED <<pending, calls>>
     ELSE /\ enqueueRunCall("manual", id)
          /\ NoAnswer
  /\ UNCHANGED <<config, table, exited, dbReady, dbError, initPc, retryCount, delay, runs, queue,
                 running, tasks, started, retries, retryCalls, storeFailures>>

\* a cron job fires: void enqueueRun('scheduled').catch(...)
CronTick(id) ==
  /\ Alive
  /\ IF enqueueRunNotReady
     THEN /\ lastResp' = NotReadyAnswer("scheduled")
          /\ UNCHANGED <<pending, calls>>
     ELSE /\ enqueueRunCall("scheduled", id)
          /\ NoAnswer
  /\ UNCHANGED <<config, table, exited, dbReady, dbError, initPc, retryCount, delay, runs, queue,
                 running, tasks, started, retries, retryCalls, storeFailures>>

RemoveAt(seq, i) == SubSeq(seq, 1, i - 1) \o SubSeq(seq, i + 1, Len(seq))

\* a store call throws (the connection is lost, the statement fails)
StoreMayThrow == storeFailures < MaxStoreFailures

\* `await db.createRun(id)` of the i-th suspended enqueueRun settles; enqueueRun
\* goes on to queue.enqueue and returns, and the trigger answers
CreateRunResolves(i) ==
  /\ Alive
  /\ i \in 1..Len(pending)
  /\ ~createRunThrows(runs, pending[i].id)
  /\ runs' = createRun(table, runs, pending[i].id)
  /\ SetQueue(enqueue(TheQueue, NewTask(pending[i].id)))
  /\ lastResp' = QueuedAnswer(pending[i].source)
  /\ pending' = RemoveAt(pending, i)
  /\ UNCHANGED <<config, table, exited, dbReady, dbError, initPc, retryCount, delay, calls, retries,
                 retryCalls, storeFailures>>

CreateRunRejects(i) ==
  /\ Alive
  /\ i \in 1..Len(pending)
  /\ IF createRunThrows(runs, pending[i].id)
     THEN UNCHANGED storeFailures
     ELSE StoreMayThrow /\ storeFailures' = storeFailures + 1
  /\ lastResp' = ErrorAnswer(pending[i].source)
  /\ pending' = RemoveAt(pending, i)
  /\ UNCHANGED <<config, table, exited, dbReady, dbError, initPc, retryCount, delay, runs, queue,
                 running, tasks, started, calls, retries, retryCalls>>

(***************************************************************************)
(* runner.ts: executeRun.  tasks[k].pc names the await at which the call   *)
(* is suspended; each action is the continuation after that await.         *)
(***************************************************************************)
\* what recordAudio and transcribe can throw, and what the transcription
\* process can print
RecordErrors == {"stream unreachable"}
TranscribeErrors == {"Transcription failed (1)"}
TranscribeOutputs == {<<>>, <<"k","e","y","w","o","r","d"," ","T","-","N","-","T","\n">>}

\* the answers of the completion endpoint that the runs of Spec receive
NoResponse == [kind |-> "noContent", text |-> <<>>, decoded_summary |-> UNDEFINED,
               likely_acdc_reference |-> UNDEFINED, confidence_0_to_1 |-> Num(0)]
HttpError == [NoResponse EXCEPT !.kind = "httpError"]
SnippetResponses == {HttpError, [NoResponse EXCEPT !.kind = "content", !.text = <<"r","o","s","i","e","!">>]}
FullResponses ==
  {HttpError,
   [NoResponse EXCEPT !.kind = "content", !.decoded_summary = <<"t","n","t">>,
                      !.likely_acdc_reference = <<"T","N","T">>, !.confidence_0_to_1 = Num(170)]}

\* what the transcription process prints in SpecAnalysis: nothing, speech
\* without clue word, single letters without clue word, a clue word without
\* letters, and the scrambles of ROSIE and TNT
SilenceOutput == <<>>
NoClueOutput == <<"h","e","l","l","o"," ","w","o","r","l","d","\n">>
LettersOnlyOutput == <<" ","a"," ","b"," ","c">>
ClueOnlyOutput == <<"k","e","y","w","o","r","d"," ","r","o","s","i","e">>
RosieOutput == <<"k","e","y","w","o","r","d"," ","S","-","O","-","I","-","E","-","R","\n">>
RosieLowerOutput == <<"t","h","e"," ","K","e","y","w","o","r","d"," ","s","-","o","-","i","-","e","-","r",".">>
RosieThenWordOutput == <<"k","e","y","w","o","r","d"," ","S","-","O","-","I","-","E","-","R"," ","a"," ","d","a","y">>
TntOutput == <<"t","h","e"," ","k","e","y","w","o","r","d"," ","t","o","d","a","y"," ","i","s"," ","T","-","N","-","T">>
AnalysisOutputs ==
  {SilenceOutput, NoClueOutput, LettersOnlyOutput, ClueOnlyOutput, RosieOutput,
   RosieLowerOutput, RosieThenWordOutput, TntOutput}

\* transcribe resolves with out.trim()
transcribe(out) == Trim(out)

\* analyzeExistingTranscript on every input the runs of Spec give it, computed
\* once
Transcripts == {transcribe(out) : out \in TranscribeOutputs \cup AnalysisOutputs}
AnalysisOf ==
  [t \in Transcripts, key \in {c.openAiApiKey : c \in Configs},
   sr \in SnippetResponses, fr \in FullResponses |->
     analyzeExistingTranscript(t, key, sr, fr)]

\* the catch block of executeRun up to `await db.updateRun(runId, {status: 'failed', ...})`
executeRunCatch(task, stage, message) ==
  [task EXCEPT !.logs = LoggerAppend(@, "ERROR", "Run failed"),
               !.threw = stage,
               !.message = message,
               !.pc = "updateFailed"]

IsLikelyUnknown(likely) == likely = <<>> \/ likely = UNKNOWN

AtPc(k, pc) == k \in 1..Len(tasks) /\ tasks[k].pc = pc

StoreThrows == StoreMayThrow /\ storeFailures' = storeFailures + 1

\* `await db.updateRun(id, patch)` resolves: the store has run the UPDATE
UpdateReturns(id, patch) ==
  /\ ~updateRunThrows(table, patch)
  /\ runs' = updateRun(runs, id, patch)

\* `await db.updateRun(id, patch)` rejects: the statement names a column that
\* the table does not have, or the store fails
UpdateThrows(patch) ==
  IF updateRunThrows(table, patch) THEN UNCHANGED storeFailures ELSE StoreThrows

\* a specification lets `await db.updateRun(id, patch)` reject when it lets
\* the store fail (mayThrow) and whenever the table rejects the statement
MayReject(mayThrow, patch) == mayThrow \/ updateRunThrows(table, patch)

\* the patch of the 'running' update
RunningPatch == Patch([status |-> "running", run_logs |-> <<>>])

ExecFrame == <<config, table, exited, dbReady, dbError, initPc, retryCount, delay, queue, running,
               started, pending, calls, retries, retryCalls>>

\* await db.updateRun(runId, {status: 'running', run_logs: ''})
UpdateRunningResolves(k) ==
  /\ Alive
  /\ AtPc(k, "updateRunning")
  /\ UpdateReturns(tasks[k].id, RunningPatch)
  /\ tasks' = [tasks EXCEPT ![k].logs = LoggerAppend(@, "INFO", "Recording audio from stream"),
                            ![k].pc = "recordAudio"]
  /\ NoAnswer
  /\ UNCHANGED <<ExecFrame, storeFailures>>

UpdateRunningRejects(k) ==
  /\ Alive
  /\ AtPc(k, "updateRunning")
  /\ UpdateThrows(RunningPatch)
  /\ tasks' = [tasks EXCEPT ![k] = executeRunCatch(@, "store", UpdateErrorMessage(table, RunningPatch))]
  /\ NoAnswer
  /\ UNCHANGED <<ExecFrame, runs>>

\* an 'error' event on a child process that has no listener for it: runCommand
\* and transcribe listen for 'data' and 'close' only, so the event is thrown as
\* an uncaught exception and the process ends
uncaughtException == exited' = TRUE

\* await recordAudio(audioPath)
RecordAudioResolves(k) ==
  /\ Alive
  /\ AtPc(k, "recordAudio")
  /\ tasks' = [tasks EXCEPT
       ![k].logs = LoggerAppend(LoggerAppend(@, "INFO", "Recording completed"),
                                "INFO", "Starting transcription."),
       ![k].pc = "transcribe"]
  /\ NoAnswer
  /\ UNCHANGED <<ExecFrame, runs, storeFailures>>

RecordAudioRejects(k, message) ==
  /\ Alive
  /\ AtPc(k, "recordAudio")
  /\ tasks' = [tasks EXCEPT ![k] = executeRunCatch(@, "recordAudio", message)]
  /\ NoAnswer
  /\ UNCHANGED <<ExecFrame, runs, storeFailures>>

\* spawn('ffmpeg', ...) cannot start the program: the child emits 'error', the
\* promise of runCommand never settles and the catch block of executeRun does
\* not run
RecordAudioSpawnError(k) ==
  /\ Alive
  /\ AtPc(k, "recordAudio")
  /\ uncaughtException
  /\ NoAnswer
  /\ UNCHANGED <<config, table, dbReady, dbError, initPc, retryCount, delay, queue, running,
                 started, pending, calls, retries, retryCalls, tasks, runs, storeFailures>>

\* await transcribe(audioPath); analyzeExistingTranscript is then called
TranscribeResolves(k, out) ==
  /\ Alive
  /\ AtPc(k, "transcribe")
  /\ tasks' = [tasks EXCEPT
       ![k].transcript = transcribe(out),
       ![k].logs = LoggerAppend(LoggerAppend(@, "INFO", "Transcription completed"),
                                "INFO", "Starting transcript analysis."),
       ![k].analyzed = TRUE,
       ![k].pc = "analyze"]
  /\ NoAnswer
  /\ UNCHANGED <<ExecFrame, runs, storeFailures>>

TranscribeRejects(k, message) ==
  /\ Alive
  /\ AtPc(k, "transcribe")
  /\ tasks' = [tasks EXCEPT ![k] = executeRunCatch(@, "transcribe", message)]
  /\ NoAnswer
  /\ UNCHANGED <<ExecFrame, runs, storeFailures>>

\* spawn(config.pythonBin, ...) cannot start the program: as for ffmpeg
TranscribeSpawnError(k) ==
  /\ Alive
  /\ AtPc(k, "transcribe")
  /\ uncaughtException
  /\ NoAnswer
  /\ UNCHANGED <<config, table, dbReady, dbError, initPc, retryCount, delay, queue, running,
                 started, pending, calls, retries, retryCalls, tasks, runs, storeFailures>>

\* await analyzeExistingTranscript(transcript), which never throws; then the
\* call of db.updateRun(runId, {status: 'done', ...})
AnalyzeResolves(k, snippetResp, fullResp) ==
  /\ Alive
  /\ AtPc(k, "analyze")
  /\ LET res == AnalysisOf[tasks[k].transcript, config.openAiApiKey,
                            snippetResp, fullResp]
     IN  tasks' = [tasks EXCEPT
           ![k].res = res,
           ![k].logs = LoggerAppendAll(@, "INFO", res.analysisLogs),
           ![k].pc = "updateDone"]
  /\ NoAnswer
  /\ UNCHANGED <<ExecFrame, runs, storeFailures>>

\* a done update whose likely_acdc_reference is the decoded summary
DonePatchLikelyDecoded(task) ==
  Patch([status |-> "done", transcript |-> task.transcript,
         decoded_summary |-> task.res.decodedSummary,
         likely_acdc_reference |-> task.res.decodedSummary,
         confidence |-> task.res.confidence,
         error |-> task.res.errorNote])

\* the patch of the 'done' update
DonePatch(task) ==
  Patch([status |-> "done", transcript |-> task.transcript,
         decoded_summary |-> task.res.decodedSummary,
         likely_acdc_reference |-> task.res.likely,
         confidence |-> task.res.confidence,
         error |-> task.res.errorNote])

\* await db.updateRun(runId, {status: 'done', ...}), then the two last log
\* lines and the call of logger.flushToDb
UpdateDoneResolves(k) ==
  /\ Alive
  /\ AtPc(k, "updateDone")
  /\ UpdateReturns(tasks[k].id, DonePatch(tasks[k]))
  /\ LET logs1 == IF IsLikelyUnknown(tasks[k].res.likely)
                  THEN LoggerAppend(tasks[k].logs, "ERROR",
                                    "Final likely AC/DC reference is UNKNOWN.")
                  ELSE tasks[k].logs
     IN  tasks' = [tasks EXCEPT ![k].logs = LoggerAppend(logs1, "INFO", "Run finished"),
                                ![k].pc = "flush"]
  /\ NoAnswer
  /\ UNCHANGED <<ExecFrame, storeFailures>>

UpdateDoneRejects(k) ==
  /\ Alive
  /\ AtPc(k, "updateDone")
  /\ UpdateThrows(DonePatch(tasks[k]))
  /\ tasks' = [tasks EXCEPT ![k] = executeRunCatch(@, "store", UpdateErrorMessage(table, DonePatch(tasks[k])))]
  /\ NoAnswer
  /\ UNCHANGED <<ExecFrame, runs>>

QueueFrame == <<config, table, dbReady, dbError, initPc, retryCount, delay, pending, calls,
                retries, retryCalls>>

\* flushToDb: db.updateRun(runId, {run_logs: logs.join('\n')})
FlushPatch(task) == Patch([run_logs |-> task.logs])

\* await logger.flushToDb() at the end of the try block: executeRun returns,
\* the task resolves and kick runs its finally block
FlushResolves(k) ==
  /\ Alive
  /\ AtPc(k, "flush")
  /\ UpdateReturns(tasks[k].id, FlushPatch(tasks[k]))
  /\ SetQueue(TaskSettles(TheQueue, k, "resolved"))
  /\ NoAnswer
  /\ UNCHANGED <<QueueFrame, exited, storeFailures>>

FlushRejects(k) ==
  /\ Alive
  /\ AtPc(k, "flush")
  /\ UpdateThrows(FlushPatch(tasks[k]))
  /\ tasks' = [tasks EXCEPT ![k] = executeRunCatch(@, "store", UpdateErrorMessage(table, FlushPatch(tasks[k])))]
  /\ NoAnswer
  /\ UNCHANGED <<ExecFrame, runs>>

\* the patch of the 'failed' update
FailedPatch(task) == Patch([status |-> "failed", error |-> <<task.message>>])

\* await db.updateRun(runId, {status: 'failed', error: message}) in the catch
\* block, then the call of logger.flushToDb
UpdateFailedResolves(k) ==
  /\ Alive
  /\ AtPc(k, "updateFailed")
  /\ UpdateReturns(tasks[k].id, FailedPatch(tasks[k]))
  /\ tasks' = [tasks EXCEPT ![k].pc = "flushFailed"]
  /\ NoAnswer
  /\ UNCHANGED <<ExecFrame, storeFailures>>

\* the update throws inside the catch block: executeRun rejects, and so do
\* the task and the kick that awaits it, whose promise nobody handles
UpdateFailedRejects(k) ==
  /\ Alive
  /\ AtPc(k, "updateFailed")
  /\ UpdateThrows(FailedPatch(tasks[k]))
  /\ SetQueue(TaskSettles(TheQueue, k, "rejected"))
  /\ NoAnswer
  /\ unhandledRejection
  /\ UNCHANGED <<QueueFrame, runs>>

\* await logger.flushToDb() in the catch block
FlushFailedResolves(k) ==
  /\ Alive
  /\ AtPc(k, "flushFailed")
  /\ UpdateReturns(tasks[k].id, FlushPatch(tasks[k]))
  /\ SetQueue(TaskSettles(TheQueue, k, "resolved"))
  /\ NoAnswer
  /\ UNCHANGED <<QueueFrame, exited, storeFailures>>

FlushFailedRejects(k) ==
  /\ Alive
  /\ AtPc(k, "flushFailed")
  /\ UpdateThrows(FlushPatch(tasks[k]))
  /\ SetQueue(TaskSettles(TheQueue, k, "rejected"))
  /\ NoAnswer
  /\ unhandledRejection
  /\ UNCHANGED <<QueueFrame, runs>>

(***************************************************************************)
(* server.ts: POST /runs/:id/retry.  retries holds the handlers in flight; *)
(* a handler that has answered (or whose promise has rejected) is removed. *)
(***************************************************************************)
\* a retry that runs executeRun again
retryByExecuteRun(id) == NewTask(id)

NewRetry(id) ==
  [id |-> id, pc |-> "getRun", run |-> <<>>, transcript |-> <<>>, retryLogs |-> <<>>,
   res |-> NoResult, finalError |-> NULL, message |-> ""]

addRetryLog(retryLogs, message) == Append(retryLogs, "[RETRY] " \o message)

RECURSIVE addRetryLogs(_, _)
addRetryLogs(retryLogs, messages) ==
  IF messages = <<>> THEN retryLogs
  ELSE addRetryLogs(addRetryLog(retryLogs, Head(messages)), Tail(messages))

\* a conversion that gives a null transcript a text: with it the handler lets a
\* record without transcript through
OrPlaceholder(x) == IF x = NULL \/ x = UNDEFINED THEN <<"?">> ELSE x

\* String(x || '') for a string or null x
OrEmpty(x) == IF x = NULL \/ x = UNDEFINED THEN <<>> ELSE x

UnknownMessage == "Retry completed but final likely AC/DC reference is still UNKNOWN."

\* run_logs replaced by the lines of the retry
RetryRunLogsReplaced(retry) == retry.retryLogs

\* [String(run.run_logs || '').trim(), retryLogs.join('\n')].filter(Boolean).join('\n')
RetryRunLogs(retry) == OrEmpty(Field(retry.run[1], "run_logs")) \o retry.retryLogs

\* the catch block of the handler up to `await db.updateRun(id, {status: 'failed', ...})`
retryCatch(retry, message) ==
  [retry EXCEPT !.retryLogs = addRetryLog(@, "Retry failed"),
                !.message = message,
                !.pc = "updateFailed"]

\* the patch of the retry's 'running' update
RetryRunningPatch == Patch([status |-> "running"])

RetryAt(r, pc) == r \in 1..Len(retries) /\ retries[r].pc = pc

RetryAnswer(code) == [ep |-> "retry", code |-> code]

RetryFrame == <<config, table, dbReady, dbError, initPc, retryCount, delay, queue, running,
                tasks, started, pending, calls, retryCalls>>

\* the request arrives: z.string().parse(req.params.id) and the call of db.getRun
RetryRequestUpTo(id, maxRetries) ==
  /\ Alive
  /\ retryCalls < maxRetries
  /\ retryCalls' = retryCalls + 1
  /\ retries' = Append(retries, NewRetry(id))
  /\ NoAnswer
  /\ UNCHANGED <<config, table, exited, dbReady, dbError, initPc, retryCount, delay, runs, queue,
                 running, tasks, started, pending, calls, storeFailures>>

RetryRequest(id) == RetryRequestUpTo(id, MaxRetries)

\* await db.getRun(id), the two checks, and the start of the try block up to
\* `await db.updateRun(id, {status: 'running'})`
RetryGetRunResolves(r) ==
  /\ Alive
  /\ RetryAt(r, "getRun")
  /\ ~getRunThrows(table)
  /\ LET run == getRun(runs, retries[r].id)
         transcript == IF run = <<>> THEN <<>> ELSE Trim(OrEmpty(run[1].transcript))
     IN  IF run = <<>>
         THEN /\ lastResp' = RetryAnswer("404")
              /\ retries' = RemoveAt(retries, r)
         ELSE IF transcript = <<>>
         THEN /\ lastResp' = RetryAnswer("400")
              /\ retries' = RemoveAt(retries, r)
         ELSE /\ retries' = [retries EXCEPT
                   ![r].run = run,
                   ![r].transcript = transcript,
                   ![r].retryLogs = addRetryLog(@, "Manual retry requested."),
                   ![r].pc = "updateRunning"]
              /\ NoAnswer
  /\ UNCHANGED <<RetryFrame, exited, runs, storeFailures>>

\* db.getRun throws outside the try block (the handler does not wait for
\* dbReady): the handler's promise rejects, which nobody handles, and the
\* request is never answered
RetryGetRunRejects(r) ==
  /\ Alive
  /\ RetryAt(r, "getRun")
  /\ IF getRunThrows(table) THEN UNCHANGED storeFailures ELSE StoreThrows
  /\ lastResp' = RetryAnswer("unanswered")
  /\ retries' = RemoveAt(retries, r)
  /\ unhandledRejection
  /\ UNCHANGED <<RetryFrame, runs>>

\* await db.updateRun(id, {status: 'running'}); analyzeExistingTranscript is
\* then called
RetryUpdateRunningResolves(r) ==
  /\ Alive
  /\ RetryAt(r, "updateRunning")
  /\ UpdateReturns(retries[r].id, RetryRunningPatch)
  /\ retries' = [retries EXCEPT ![r].pc = "analyze"]
  /\ NoAnswer
  /\ UNCHANGED <<RetryFrame, exited, storeFailures>>

RetryUpdateRunningRejects(r) ==
  /\ Alive
  /\ RetryAt(r, "updateRunning")
  /\ UpdateThrows(RetryRunningPatch)
  /\ retries' = [retries EXCEPT ![r] = retryCatch(@, UpdateErrorMessage(table, RetryRunningPatch))]
  /\ NoAnswer
  /\ UNCHANGED <<RetryFrame, exited, runs>>

\* await analyzeExistingTranscript(transcript), the 'still UNKNOWN' note, and
\* the call of db.updateRun(id, {status: 'done', ...})
RetryAnalyzeResolves(r, snippetResp, fullResp) ==
  /\ Alive
  /\ RetryAt(r, "analyze")
  /\ LET res == AnalysisOf[retries[r].transcript, config.openAiApiKey,
                            snippetResp, fullResp]
         logs1 == addRetryLogs(retries[r].retryLogs, res.analysisLogs)
         unknown == ToUpperCase(Trim(OrEmpty(res.likely))) = UNKNOWN
     IN  retries' = [retries EXCEPT
           ![r].res = res,
           ![r].finalError = IF unknown THEN AppendNote(res.errorNote, UnknownMessage)
                             ELSE res.errorNote,
           ![r].retryLogs = IF unknown THEN addRetryLog(logs1, UnknownMessage) ELSE logs1,
           ![r].pc = "updateDone"]
  /\ NoAnswer
  /\ UNCHANGED <<RetryFrame, exited, runs, storeFailures>>

\* a done update whose error is the errorNote of the analysis
RetryDonePatchAnalysisNote(retry) ==
  Patch([status |-> "done", decoded_summary |-> retry.res.decodedSummary,
         likely_acdc_reference |-> retry.res.likely,
         confidence |-> retry.res.confidence,
         error |-> retry.res.errorNote,
         run_logs |-> RetryRunLogs(retry)])

RetryDonePatch(retry) ==
  Patch([status |-> "done", decoded_summary |-> retry.res.decodedSummary,
         likely_acdc_reference |-> retry.res.likely,
         confidence |-> retry.res.confidence,
         error |-> retry.finalError,
         run_logs |-> RetryRunLogs(retry)])

\* await db.updateRun(id, {status: 'done', ...}), then the call of db.getRun
RetryUpdateDoneResolves(r) ==
  /\ Alive
  /\ RetryAt(r, "updateDone")
  /\ UpdateReturns(retries[r].id, RetryDonePatch(retries[r]))
  /\ retries' = [retries EXCEPT ![r].pc = "getUpdated"]
  /\ NoAnswer
  /\ UNCHANGED <<RetryFrame, exited, storeFailures>>

RetryUpdateDoneRejects(r) ==
  /\ Alive
  /\ RetryAt(r, "updateDone")
  /\ UpdateThrows(RetryDonePatch(retries[r]))
  /\ retries' = [retries EXCEPT ![r] = retryCatch(@, UpdateErrorMessage(table, RetryDonePatch(retries[r])))]
  /\ NoAnswer
  /\ UNCHANGED <<RetryFrame, exited, runs>>

\* await db.getRun(id) after the update: the handler answers
RetryGetUpdatedResolves(r) ==
  /\ Alive
  /\ RetryAt(r, "getUpdated")
  /\ lastResp' = RetryAnswer(IF getRun(runs, retries[r].id) = <<>> THEN "500" ELSE "200")
  /\ retries' = RemoveAt(retries, r)
  /\ UNCHANGED <<RetryFrame, exited, runs, storeFailures>>

RetryGetUpdatedRejects(r) ==
  /\ Alive
  /\ RetryAt(r, "getUpdated")
  /\ StoreThrows
  /\ retries' = [retries EXCEPT ![r] = retryCatch(@, StoreErrorMessage)]
  /\ NoAnswer
  /\ UNCHANGED <<RetryFrame, exited, runs>>

\* a catch block that also clears the transcript
RetryFailedPatchClearing(retry) ==
  Patch([status |-> "failed", error |-> <<retry.message>>, transcript |-> NULL,
         run_logs |-> <<>>])

RetryFailedPatch(retry) ==
  Patch([status |-> "failed", error |-> <<retry.message>>,
         run_logs |-> RetryRunLogs(retry)])

\* await db.updateRun(id, {status: 'failed', ...}) in the catch block
RetryUpdateFailedResolves(r) ==
  /\ Alive
  /\ RetryAt(r, "updateFailed")
  /\ UpdateReturns(retries[r].id, RetryFailedPatch(retries[r]))
  /\ lastResp' = RetryAnswer("500")
  /\ retries' = RemoveAt(retries, r)
  /\ UNCHANGED <<RetryFrame, exited, storeFailures>>

RetryUpdateFailedRejects(r) ==
  /\ Alive
  /\ RetryAt(r, "updateFailed")
  /\ UpdateThrows(RetryFailedPatch(retries[r]))
  /\ lastResp' = RetryAnswer("unanswered")
  /\ retries' = RemoveAt(retries, r)
  /\ unhandledRejection
  /\ UNCHANGED <<RetryFrame, runs>>

(***************************************************************************)
(* server.ts: GET /runs and GET /runs/:id.  A request changes nothing      *)
(* until its store call settles, so the requests in flight are not part of *)
(* the state.                                                              *)
(***************************************************************************)
ReadFrame == <<config, table, dbReady, dbError, initPc, retryCount, delay, runs, queue,
               running, tasks, started, pending, calls, retries, retryCalls>>

\* SELECT * FROM runs ORDER BY created_at_utc DESC LIMIT ? on a database
\* without runs table: the statement is rejected and listRuns throws
listRunsThrows(t) == t = NoTable

ReadAnswer(ep, code) == [ep |-> ep, code |-> code]

\* GET /runs: await db.listRuns(100) resolves and the handler answers the rows
GetRunsResolves ==
  /\ Alive
  /\ ~listRunsThrows(table)
  /\ lastResp' = ReadAnswer("runs", "200")
  /\ UNCHANGED <<ReadFrame, exited, storeFailures>>

\* db.listRuns throws: the handler has no try block, its promise rejects,
\* which nobody handles, and the request is never answered
GetRunsRejects ==
  /\ Alive
  /\ IF listRunsThrows(table) THEN UNCHANGED storeFailures ELSE StoreThrows
  /\ lastResp' = ReadAnswer("runs", "unanswered")
  /\ unhandledRejection
  /\ UNCHANGED ReadFrame

\* GET /runs/:id: await db.getRun(id) resolves and the handler answers 404 or
\* the row
GetRunByIdResolves(id) ==
  /\ Alive
  /\ ~getRunThrows(table)
  /\ lastResp' = ReadAnswer("run", IF getRun(runs, id) = <<>> THEN "404" ELSE "200")
  /\ UNCHANGED <<ReadFrame, exited, storeFailures>>

\* db.getRun throws, as in GET /runs
GetRunByIdRejects(id) ==
  /\ Alive
  /\ IF getRunThrows(table) THEN UNCHANGED storeFailures ELSE StoreThrows
  /\ lastResp' = ReadAnswer("run", "unanswered")
  /\ unhandledRejection
  /\ UNCHANGED ReadFrame

(***************************************************************************)
(* The next-state relation.                                                *)
(***************************************************************************)
Endpoints == {"run", "secure"}
TaskIds == 1..Len(tasks)
PendingCalls == 1..Len(pending)
RetrySlots == 1..Len(retries)

\* Spec: the backend but for its two read-only endpoints, which SpecReads
\* covers.  Every request carries the configured key (a
\* request that is refused with 401 changes nothing but its answer); the
\* retry endpoint is asked about any id that may be in the store.
Next ==
  \/ ListenCallback
  \/ DbInitResolves
  \/ DbInitRejects
  \/ RetryTimerFires
  \/ /\ MayCall(MaxRuns, MaxPending)
     /\ \E ep \in Endpoints, id \in generateRunId : PostRun(ep, config.backendApiKey, id)
  \/ /\ MayCall(MaxRuns, MaxPending)
     /\ \E id \in generateRunId : CronTick(id)
  \/ \E i \in PendingCalls : CreateRunResolves(i)
  \/ \E i \in PendingCalls : CreateRunRejects(i)
  \/ \E k \in TaskIds : UpdateRunningResolves(k)
  \/ \E k \in TaskIds : UpdateRunningRejects(k)
  \/ \E k \in TaskIds : RecordAudioResolves(k)
  \/ \E k \in TaskIds, m \in RecordErrors : RecordAudioRejects(k, m)
  \/ \E k \in TaskIds : RecordAudioSpawnError(k)
  \/ \E k \in TaskIds, out \in TranscribeOutputs : TranscribeResolves(k, out)
  \/ \E k \in TaskIds, m \in TranscribeErrors : TranscribeRejects(k, m)
  \/ \E k \in TaskIds : TranscribeSpawnError(k)
  \/ \E k \in TaskIds, sr \in SnippetResponses, fr \in FullResponses :
        AnalyzeResolves(k, sr, fr)
  \/ \E k \in TaskIds : UpdateDoneResolves(k)
  \/ \E k \in TaskIds : UpdateDoneRejects(k)
  \/ \E k \in TaskIds : FlushResolves(k)
  \/ \E k \in TaskIds : FlushRejects(k)
  \/ \E k \in TaskIds : UpdateFailedResolves(k)
  \/ \E k \in TaskIds : UpdateFailedRejects(k)
  \/ \E k \in TaskIds : FlushFailedResolves(k)
  \/ \E k \in TaskIds : FlushFailedRejects(k)
  \/ \E id \in 1..MaxRuns : RetryRequest(id)
  \/ \E r \in RetrySlots : RetryGetRunResolves(r)
  \/ \E r \in RetrySlots : RetryGetRunRejects(r)
  \/ \E r \in RetrySlots : RetryUpdateRunningResolves(r)
  \/ \E r \in RetrySlots : RetryUpdateRunningRejects(r)
  \/ \E r \in RetrySlots, sr \in SnippetResponses, fr \in FullResponses :
        RetryAnalyzeResolves(r, sr, fr)
  \/ \E r \in RetrySlots : RetryUpdateDoneResolves(r)
  \/ \E r \in RetrySlots : RetryUpdateDoneRejects(r)
  \/ \E r \in RetrySlots : RetryGetUpdatedResolves(r)
  \/ \E r \in RetrySlots : RetryGetUpdatedRejects(r)
  \/ \E r \in RetrySlots : RetryUpdateFailedResolves(r)
  \/ \E r \in RetrySlots : RetryUpdateFailedRejects(r)

Spec == Init /\ [][Next]_vars

(***************************************************************************)
(* SpecQueue: startup, the two triggers, enqueueRun, the queue and         *)
(* executeRun, for MaxQueueRuns runs.  No decode credential is configured, *)
(* every transcription prints the same text and no retry is requested,     *)
(* none of which the queue reads.                                          *)
(***************************************************************************)
QueueTranscribeOutput == <<"k","e","y","w","o","r","d"," ","T","-","N","-","T","\n">>

InitQueue == Init /\ config.openAiApiKey = ""

\* a store call may throw in SpecQueue
QueueStoreMayThrow == storeFailures < MaxQueueStoreFailures

NextQueue ==
  \/ ListenCallback
  \/ DbInitResolves
  \/ DbInitRejects
  \/ RetryTimerFires
  \/ /\ MayCall(MaxQueueRuns, MaxQueuePending)
     /\ \E id \in generateRunId : PostRun("run", config.backendApiKey, id)
  \/ /\ MayCall(MaxQueueRuns, MaxQueuePending)
     /\ \E id \in generateRunId : CronTick(id)
  \/ \E i \in PendingCalls : CreateRunResolves(i)
  \/ \E i \in PendingCalls :
        /\ QueueStoreMayThrow \/ createRunThrows(runs, pending[i].id)
        /\ CreateRunRejects(i)
  \/ \E k \in TaskIds : UpdateRunningResolves(k)
  \/ \E k \in TaskIds : UpdateRunningRejects(k) /\ MayReject(QueueStoreMayThrow, RunningPatch)
  \/ \E k \in TaskIds : RecordAudioResolves(k)
  \/ \E k \in TaskIds, m \in RecordErrors : RecordAudioRejects(k, m)
  \/ \E k \in TaskIds : RecordAudioSpawnError(k)
  \/ \E k \in TaskIds : TranscribeResolves(k, QueueTranscribeOutput)
  \/ \E k \in TaskIds, m \in TranscribeErrors : TranscribeRejects(k, m)
  \/ \E k \in TaskIds : TranscribeSpawnError(k)
  \/ \E k \in TaskIds : AnalyzeResolves(k, HttpError, HttpError)
  \/ \E k \in TaskIds : UpdateDoneResolves(k)
  \/ \E k \in TaskIds : QueueStoreMayThrow /\ UpdateDoneRejects(k)
  \/ \E k \in TaskIds : FlushResolves(k)
  \/ \E k \in TaskIds :
        FlushRejects(k) /\ MayReject(QueueStoreMayThrow, FlushPatch(tasks[k]))
  \/ \E k \in TaskIds : UpdateFailedResolves(k)
  \/ \E k \in TaskIds : QueueStoreMayThrow /\ UpdateFailedRejects(k)
  \/ \E k \in TaskIds : FlushFailedResolves(k)
  \/ \E k \in TaskIds :
        FlushFailedRejects(k) /\ MayReject(QueueStoreMayThrow, FlushPatch(tasks[k]))

SpecQueue == InitQueue /\ [][NextQueue]_vars

(***************************************************************************)
(* SpecRetry: MaxRetryRuns runs started by POST /run and executed while    *)
(* the store answers them, and retry requests for their ids and for an id  *)
(* the store does not hold, whose store calls may throw.  As in SpecQueue  *)
(* no decode credential is configured, so that the analysis does not       *)
(* depend on the answers of the remote service.                            *)
(***************************************************************************)
RetryStoreMayThrow == storeFailures < MaxRetryStoreFailures

NextRetry ==
  \/ ListenCallback
  \/ DbInitResolves
  \/ /\ MayCall(MaxRetryRuns, MaxRetryRuns)
     /\ \E id \in generateRunId : PostRun("run", config.backendApiKey, id)
  \/ \E i \in PendingCalls : CreateRunResolves(i)
  \/ \E k \in TaskIds : UpdateRunningResolves(k)
  \/ \E k \in TaskIds : UpdateRunningRejects(k) /\ MayReject(FALSE, RunningPatch)
  \/ \E k \in TaskIds : UpdateFailedResolves(k)
  \/ \E k \in TaskIds : FlushFailedRejects(k) /\ MayReject(FALSE, FlushPatch(tasks[k]))
  \/ \E k \in TaskIds : RecordAudioResolves(k)
  \/ \E k \in TaskIds, out \in TranscribeOutputs : TranscribeResolves(k, out)
  \/ \E k \in TaskIds : AnalyzeResolves(k, HttpError, HttpError)
  \/ \E k \in TaskIds : UpdateDoneResolves(k)
  \/ \E k \in TaskIds : FlushResolves(k)
  \/ \E id \in 1..(MaxRetryRuns + 1) : RetryRequest(id)
  \/ \E r \in RetrySlots : RetryGetRunResolves(r)
  \/ \E r \in RetrySlots :
        (RetryStoreMayThrow \/ getRunThrows(table)) /\ RetryGetRunRejects(r)
  \/ \E r \in RetrySlots : RetryUpdateRunningResolves(r)
  \/ \E r \in RetrySlots : RetryStoreMayThrow /\ RetryUpdateRunningRejects(r)
  \/ \E r \in RetrySlots : RetryAnalyzeResolves(r, HttpError, HttpError)
  \/ \E r \in RetrySlots : RetryUpdateDoneResolves(r)
  \/ \E r \in RetrySlots :
        RetryUpdateDoneRejects(r) /\ MayReject(RetryStoreMayThrow, RetryDonePatch(retries[r]))
  \/ \E r \in RetrySlots : RetryGetUpdatedResolves(r)
  \/ \E r \in RetrySlots : RetryStoreMayThrow /\ RetryGetUpdatedRejects(r)
  \/ \E r \in RetrySlots : RetryUpdateFailedResolves(r)
  \/ \E r \in RetrySlots :
        RetryUpdateFailedRejects(r) /\ MayReject(RetryStoreMayThrow, RetryFailedPatch(retries[r]))

SpecRetry == InitQueue /\ [][NextRetry]_vars

(***************************************************************************)
(* SpecLogs: MaxLogRuns runs started by POST /run and executed, and then   *)
(* up to MaxLogRetries retry requests for the first of them, one after the *)
(* other.  No decode credential is configured and no call fails.           *)
(***************************************************************************)
NextLogs ==
  \/ ListenCallback
  \/ DbInitResolves
  \/ /\ MayCall(MaxLogRuns, MaxLogRuns)
     /\ \E id \in generateRunId : PostRun("run", config.backendApiKey, id)
  \/ \E i \in PendingCalls : CreateRunResolves(i)
  \/ \E k \in TaskIds : UpdateRunningResolves(k)
  \/ \E k \in TaskIds : UpdateRunningRejects(k) /\ MayReject(FALSE, RunningPatch)
  \/ \E k \in TaskIds : UpdateFailedResolves(k)
  \/ \E k \in TaskIds : FlushFailedRejects(k) /\ MayReject(FALSE, FlushPatch(tasks[k]))
  \/ \E k \in TaskIds : RecordAudioResolves(k)
  \/ \E k \in TaskIds : TranscribeResolves(k, QueueTranscribeOutput)
  \/ \E k \in TaskIds : AnalyzeResolves(k, HttpError, HttpError)
  \/ \E k \in TaskIds : UpdateDoneResolves(k)
  \/ \E k \in TaskIds : FlushResolves(k)
  \/ /\ Len(tasks) = MaxLogRuns
     /\ \A k \in TaskIds : tasks[k].pc = "resolved"
     /\ retries = <<>>
     /\ RetryRequestUpTo(1, MaxLogRetries)
  \/ \E r \in RetrySlots : RetryGetRunResolves(r)
  \/ \E r \in RetrySlots : RetryUpdateRunningResolves(r)
  \/ \E r \in RetrySlots : RetryAnalyzeResolves(r, HttpError, HttpError)
  \/ \E r \in RetrySlots : RetryUpdateDoneResolves(r)
  \/ \E r \in RetrySlots : RetryGetUpdatedResolves(r)

SpecLogs == InitQueue /\ [][NextLogs]_vars

(***************************************************************************)
(* SpecOverlap: MaxOverlapRuns runs started by POST /run and executed, and *)
(* then up to MaxOverlapRetries retry requests for their records, which    *)
(* the server handles concurrently.  No decode credential is configured    *)
(* and no call fails.                                                      *)
(***************************************************************************)
NextOverlap ==
  \/ ListenCallback
  \/ DbInitResolves
  \/ /\ MayCall(MaxOverlapRuns, MaxOverlapRuns)
     /\ \E id \in generateRunId : PostRun("run", config.backendApiKey, id)
  \/ \E i \in PendingCalls : CreateRunResolves(i)
  \/ \E k \in TaskIds : UpdateRunningResolves(k)
  \/ \E k \in TaskIds : UpdateRunningRejects(k) /\ MayReject(FALSE, RunningPatch)
  \/ \E k \in TaskIds : UpdateFailedResolves(k)
  \/ \E k \in TaskIds : FlushFailedRejects(k) /\ MayReject(FALSE, FlushPatch(tasks[k]))
  \/ \E k \in TaskIds : RecordAudioResolves(k)
  \/ \E k \in TaskIds : TranscribeResolves(k, QueueTranscribeOutput)
  \/ \E k \in TaskIds : AnalyzeResolves(k, HttpError, HttpError)
  \/ \E k \in TaskIds : UpdateDoneResolves(k)
  \/ \E k \in TaskIds : FlushResolves(k)
  \/ /\ Len(tasks) = MaxOverlapRuns
     /\ \A k \in TaskIds : tasks[k].pc = "resolved"
     /\ \E id \in 1..MaxOverlapRuns : RetryRequestUpTo(id, MaxOverlapRetries)
  \/ \E r \in RetrySlots : RetryGetRunResolves(r)
  \/ \E r \in RetrySlots : RetryUpdateRunningResolves(r)
  \/ \E r \in RetrySlots : RetryAnalyzeResolves(r, HttpError, HttpError)
  \/ \E r \in RetrySlots : RetryUpdateDoneResolves(r)
  \/ \E r \in RetrySlots : RetryGetUpdatedResolves(r)

SpecOverlap == InitQueue /\ [][NextOverlap]_vars

(***************************************************************************)
(* SpecNotes: MaxNoteRuns runs started by POST /run and executed, with and *)
(* without decode credential, on a transcript with or without a clue, and  *)
(* then up to MaxNoteRetries retry requests for their records and for an   *)
(* id the store does not hold.  The remote service answers each call of a  *)
(* retry with either of its answers, and up to MaxNoteStoreFailures store  *)
(* calls of the retries throw.                                             *)
(***************************************************************************)
NoteStoreMayThrow == storeFailures < MaxNoteStoreFailures

NextNotes ==
  \/ ListenCallback
  \/ DbInitResolves
  \/ /\ MayCall(MaxNoteRuns, MaxNoteRuns)
     /\ \E id \in generateRunId : PostRun("run", config.backendApiKey, id)
  \/ \E i \in PendingCalls : CreateRunResolves(i)
  \/ \E k \in TaskIds : UpdateRunningResolves(k)
  \/ \E k \in TaskIds : UpdateRunningRejects(k) /\ MayReject(FALSE, RunningPatch)
  \/ \E k \in TaskIds : UpdateFailedResolves(k)
  \/ \E k \in TaskIds : FlushFailedRejects(k) /\ MayReject(FALSE, FlushPatch(tasks[k]))
  \/ \E k \in TaskIds : RecordAudioResolves(k)
  \/ \E k \in TaskIds, out \in {NoClueOutput, QueueTranscribeOutput} :
        TranscribeResolves(k, out)
  \/ \E k \in TaskIds : AnalyzeResolves(k, HttpError, HttpError)
  \/ \E k \in TaskIds : UpdateDoneResolves(k)
  \/ \E k \in TaskIds : FlushResolves(k)
  \/ /\ Len(tasks) = MaxNoteRuns
     /\ \A k \in TaskIds : tasks[k].pc = "resolved"
     /\ \E id \in 1..(MaxNoteRuns + 1) : RetryRequestUpTo(id, MaxNoteRetries)
  \/ \E r \in RetrySlots : RetryGetRunResolves(r)
  \/ \E r \in RetrySlots : RetryUpdateRunningResolves(r)
  \/ \E r \in RetrySlots : NoteStoreMayThrow /\ RetryUpdateRunningRejects(r)
  \/ \E r \in RetrySlots, sr \in SnippetResponses, fr \in FullResponses :
        RetryAnalyzeResolves(r, sr, fr)
  \/ \E r \in RetrySlots : RetryUpdateDoneResolves(r)
  \/ \E r \in RetrySlots :
        RetryUpdateDoneRejects(r) /\ MayReject(NoteStoreMayThrow, RetryDonePatch(retries[r]))
  \/ \E r \in RetrySlots : RetryGetUpdatedResolves(r)
  \/ \E r \in RetrySlots : NoteStoreMayThrow /\ RetryGetUpdatedRejects(r)
  \/ \E r \in RetrySlots : RetryUpdateFailedResolves(r)

SpecNotes == Init /\ [][NextNotes]_vars

(***************************************************************************)
(* SpecWords and SpecLetters: the two pure functions of the resolver       *)
(* alone.  In SpecWords toSingleWordUpper is called with every string of   *)
(* up to MaxWordChars characters of WordInputChars and with its own        *)
(* result.  In SpecLetters localDecodeFromLetters is called as             *)
(* analyzeExistingTranscript calls it, with the letters that               *)
(* extractHyphenLetters finds in a snippet, for every snippet that spells  *)
(* up to MaxLetters characters of LetterInputChars with hyphens between    *)
(* them.  lastResp holds the call that the step made.                      *)
(***************************************************************************)
StringsUpTo(chars, n) == UNION {[1..m -> chars] : m \in 0..n}

LetterInputChars == {"T", "N", "t", "n"}
WordInputChars == {"a", "B", "1", "!", " "}

PureCall(name, input, output) ==
  [ep |-> name, code |-> [in |-> input, out |-> output]]

WordsFrame == <<config, table, exited, dbReady, dbError, initPc, retryCount, delay, runs, queue,
                running, tasks, started, pending, calls, retries, retryCalls,
                storeFailures>>

\* const letters = extractHyphenLetters(context.snippet);
\* if (letters) decodedSummary = localDecodeFromLetters(letters)
\* for the snippet that spells the characters of written: `in` holds them as
\* they are written, `letters` the argument of the call
LocalDecodeCall(written) ==
  LET snippet == Join([i \in 1..Len(written) |-> <<written[i]>>], <<"-">>)
      letters == extractHyphenLetters(snippet)
  IN  /\ letters # NULL
      /\ lastResp' = [ep |-> "localDecodeFromLetters",
                      code |-> [in |-> written, letters |-> letters,
                                out |-> localDecodeFromLetters(letters)]]
      /\ UNCHANGED WordsFrame

ToSingleWordCall(value) ==
  /\ lastResp' = PureCall("toSingleWordUpper", value, toSingleWordUpper(value))
  /\ UNCHANGED WordsFrame

\* toSingleWordUpper applied to the result of the call before
ToSingleWordAgain ==
  /\ lastResp.ep = "toSingleWordUpper"
  /\ ToSingleWordCall(lastResp.code.out)

NextLetters ==
  \E written \in StringsUpTo(LetterInputChars, MaxLetters) : LocalDecodeCall(written)

SpecLetters == InitQueue /\ [][NextLetters]_vars

NextWords ==
  \/ \E value \in StringsUpTo(WordInputChars, MaxWordChars) : ToSingleWordCall(value)
  \/ ToSingleWordAgain

SpecWords == InitQueue /\ [][NextWords]_vars

(***************************************************************************)
(* SpecStore: the store alone.  createRun inserts up to MaxStoreRuns rows  *)
(* and updateRun is called with every patch of StorePatches, for the ids   *)
(* of the rows and for an id the table does not hold; lastResp holds the   *)
(* call that the step made.                                                *)
(***************************************************************************)
StoreRest == <<config, exited, dbReady, dbError, initPc, retryCount, delay, queue,
               running, tasks, started, pending, calls, retries, retryCalls,
               storeFailures>>
StoreFrame == <<table, StoreRest>>

\* the values a caller gives a field of the patch: none (the key is absent),
\* undefined, null, or a text
StoreFieldValues == {<<"absent">>, UNDEFINED, NULL, <<"e">>}
StorePatchedColumns == {"error", "run_logs"}

\* the patches: every choice of a value for each of the two columns
StorePatches ==
  {[defined |-> [c \in {d \in StorePatchedColumns : choice[d] \notin {<<"absent">>, UNDEFINED}}
                   |-> choice[c]],
    undefined |-> {d \in StorePatchedColumns : choice[d] = UNDEFINED}] :
      choice \in [StorePatchedColumns -> StoreFieldValues]}

\* db.init
StoreInit ==
  /\ table' = init(table)
  /\ lastResp' = [ep |-> "init", code |-> table]
  /\ UNCHANGED <<runs, StoreRest>>

StoreCreateRun(id) ==
  /\ table # NoTable
  /\ ~createRunThrows(runs, id)
  /\ runs' = createRun(table, runs, id)
  /\ lastResp' = [ep |-> "createRun", code |-> id]
  /\ UNCHANGED StoreFrame

\* updateRun returns, or throws and leaves the table as it is
StoreUpdateRun(id, patch) ==
  /\ table # NoTable
  /\ IF updateRunThrows(table, patch)
     THEN /\ UNCHANGED runs
          /\ lastResp' = [ep |-> "updateRunThrew", code |-> [id |-> id, patch |-> patch]]
     ELSE /\ runs' = updateRun(runs, id, patch)
          /\ lastResp' = [ep |-> "updateRun", code |-> [id |-> id, patch |-> patch]]
  /\ UNCHANGED StoreFrame

NextStore ==
  \/ StoreInit
  \/ \E id \in 1..MaxStoreRuns : StoreCreateRun(id)
  \/ \E id \in 1..(MaxStoreRuns + 1), patch \in StorePatches : StoreUpdateRun(id, patch)

SpecStore == InitQueue /\ [][NextStore]_vars

(***************************************************************************)
(* SpecAnalysis: MaxAnalysisRuns runs started by POST /run, with and       *)
(* without decode credential, every step of executeRun with both of its    *)
(* outcomes: the recording and the transcription return, throw or cannot   *)
(* start their program, the transcription prints one of the texts of       *)
(* AnalysisOutputs, the remote service answers each of the two calls of    *)
(* the analysis with either of its answers, and up to                      *)
(* MaxAnalysisStoreFailures store calls throw.                             *)
(***************************************************************************)
AnalysisStoreMayThrow == storeFailures < MaxAnalysisStoreFailures

NextAnalysis ==
  \/ ListenCallback
  \/ DbInitResolves
  \/ /\ MayCall(MaxAnalysisRuns, MaxAnalysisRuns)
     /\ \E id \in generateRunId : PostRun("run", config.backendApiKey, id)
  \/ \E i \in PendingCalls : CreateRunResolves(i)
  \/ \E k \in TaskIds : UpdateRunningResolves(k)
  \/ \E k \in TaskIds :
        UpdateRunningRejects(k) /\ MayReject(AnalysisStoreMayThrow, RunningPatch)
  \/ \E k \in TaskIds : RecordAudioResolves(k)
  \/ \E k \in TaskIds, m \in RecordErrors : RecordAudioRejects(k, m)
  \/ \E k \in TaskIds : RecordAudioSpawnError(k)
  \/ \E k \in TaskIds, out \in AnalysisOutputs : TranscribeResolves(k, out)
  \/ \E k \in TaskIds, m \in TranscribeErrors : TranscribeRejects(k, m)
  \/ \E k \in TaskIds : TranscribeSpawnError(k)
  \/ \E k \in TaskIds, sr \in SnippetResponses, fr \in FullResponses :
        AnalyzeResolves(k, sr, fr)
  \/ \E k \in TaskIds : UpdateDoneResolves(k)
  \/ \E k \in TaskIds : AnalysisStoreMayThrow /\ UpdateDoneRejects(k)
  \/ \E k \in TaskIds : FlushResolves(k)
  \/ \E k \in TaskIds :
        FlushRejects(k) /\ MayReject(AnalysisStoreMayThrow, FlushPatch(tasks[k]))
  \/ \E k \in TaskIds : UpdateFailedResolves(k)
  \/ \E k \in TaskIds : AnalysisStoreMayThrow /\ UpdateFailedRejects(k)
  \/ \E k \in TaskIds : FlushFailedResolves(k)
  \/ \E k \in TaskIds :
        FlushFailedRejects(k) /\ MayReject(AnalysisStoreMayThrow, FlushPatch(tasks[k]))

SpecAnalysis == Init /\ [][NextAnalysis]_vars

(***************************************************************************)
(* SpecReads: startup, POST /run up to the return of enqueueRun, and the   *)
(* two read-only endpoints GET /runs and GET /runs/:id, asked at any time  *)
(* (before db.init has returned as well) about the ids of the records and  *)
(* about an id the store does not hold; up to MaxReadStoreFailures store   *)
(* calls of the read-only endpoints throw.                                 *)
(***************************************************************************)
NextReads ==
  \/ ListenCallback
  \/ DbInitResolves
  \/ DbInitRejects
  \/ RetryTimerFires
  \/ /\ MayCall(MaxReadRuns, MaxReadRuns)
     /\ \E id \in generateRunId : PostRun("run", config.backendApiKey, id)
  \/ \E i \in PendingCalls : CreateRunResolves(i)
  \/ GetRunsResolves
  \/ GetRunsRejects /\ (storeFailures < MaxReadStoreFailures \/ listRunsThrows(table))
  \/ \E id \in 1..(MaxReadRuns + 1) : GetRunByIdResolves(id)
  \/ \E id \in 1..(MaxReadRuns + 1) :
        GetRunByIdRejects(id) /\ (storeFailures < MaxReadStoreFailures \/ getRunThrows(table))

SpecReads == InitQueue /\ [][NextReads]_vars

(***************************************************************************)
(* SpecAuth: startup and the two POST endpoints, under every configuration *)
(* of BACKEND_API_KEY and REQUIRE_API_KEY and with every X-API-KEY header, *)
(* up to the return of enqueueRun.                                         *)
(***************************************************************************)
InitAuth == config \in Configs /\ InitState

NextAuth ==
  \/ ListenCallback
  \/ DbInitResolves
  \/ /\ MayCall(MaxAuthRuns, MaxAuthRuns)
     /\ \E ep \in Endpoints, key \in HeaderKeys, id \in generateRunId : PostRun(ep, key, id)
  \/ \E i \in PendingCalls : CreateRunResolves(i)
  \/ \E i \in PendingCalls :
        createRunThrows(runs, pending[i].id) /\ CreateRunRejects(i)

SpecAuth == InitAuth /\ [][NextAuth]_vars

(***************************************************************************)
(* The queue (checked under SpecQueue).                                    *)
(***************************************************************************)
Settled(k) == tasks[k].pc \in {"resolved", "rejected"}
InFlight(k) == tasks[k].pc \notin {"waiting", "resolved", "rejected"}
TasksInFlight == {k \in TaskIds : InFlight(k)}

\* C1: at any moment at most one task that the queue has started has not yet
\* settled, so at most one executeRun call is in flight, whatever the
\* interleaving of manual and scheduled enqueueRun calls; the running flag is
\* set exactly while there is such a task.
C1_AtMostOneTaskInFlight ==
  /\ Cardinality(TasksInFlight) <= 1
  /\ running = (TasksInFlight # {})

\* one executeRun is suspended in recordAudio while two runs wait behind it
C1_Witness ==
  /\ \E k \in TaskIds : tasks[k].pc = "recordAudio"
  /\ Len(queue) = 2

\* C2: tasks start in the order in which they were enqueued: the k-th task
\* started is the k-th task enqueued, and a task starts only when every task
\* enqueued before it has settled.
C2_StartInEnqueueOrder ==
  /\ started = [i \in 1..Len(started) |-> i]
  /\ queue = [i \in 1..Len(queue) |-> Len(started) + i]
  /\ \A k \in TaskIds : tasks[k].pc # "waiting" => \A j \in 1..(k - 1) : Settled(j)

\* three tasks A, B and C were enqueued; A and B have settled and C is in flight
C2_Witness ==
  /\ Len(tasks) = 3
  /\ InFlight(3)
  /\ Settled(1) /\ Settled(2)

\* some task settles in this step
SettlesInStep(k) == k \in TaskIds /\ InFlight(k) /\ tasks'[k].pc \in {"resolved", "rejected"}

\* C3: when the task in flight settles, by resolving or by rejecting, the
\* queue clears the running flag and starts the task at the head of the waiting
\* list, if there is one; the waiting tasks behind it stay, in their order;
\* and the queue is not stalled: the process that runs the started task and
\* the tasks behind it is still running after the step.
C3_SettleStartsNext ==
  [][\A k \in TaskIds : SettlesInStep(k) =>
        /\ IF queue = <<>>
           THEN running' = FALSE /\ queue' = <<>> /\ started' = started
           ELSE /\ running' = TRUE
                /\ tasks'[Head(queue)].pc = "updateRunning"
                /\ started' = Append(started, Head(queue))
                /\ queue' = Tail(queue)
        /\ Alive']_vars

(***************************************************************************)
(* Startup (checked under SpecQueue).                                      *)
(***************************************************************************)
\* C9: while dbReady is false every enqueueRun call raises DB_NOT_READY before
\* it creates a record or a task: the store has no record, no enqueueRun is
\* suspended in createRun and the queue has no task; a manual trigger is
\* answered 503 and a scheduled tick is skipped, and nothing remembers it: at
\* any time the tasks and suspended calls are at most the calls that passed
\* the gate.
C9_NotReadyRefusesRuns ==
  /\ ~dbReady =>
       /\ DOMAIN runs = {} /\ pending = <<>> /\ calls = <<>>
       /\ tasks = <<>> /\ queue = <<>> /\ ~running
       /\ lastResp \in {NoResp, [ep |-> "manual", code |-> "503"],
                        [ep |-> "scheduled", code |-> "skipped"]}
  /\ Len(tasks) + Len(pending) <= Len(calls)

\* db.init has failed once and a scheduled tick has just been skipped
C9_Witness ==
  /\ ~dbReady /\ initPc = "sleep"
  /\ lastResp = [ep |-> "scheduled", code |-> "skipped"]

\* C10: initDbWithRetry retries db.init without bound: after the k-th failure
\* it waits 2, 5, 10, 20 seconds for k = 1..4 and 30 seconds for every k >= 5,
\* then attempts again; after the first success it returns and attempts no
\* more.
C10_RetryLadder ==
  /\ [](initPc = "sleep" =>
          /\ ~dbReady
          /\ retryCount >= 1
          /\ delay = CASE retryCount = 1 -> 2000
                       [] retryCount = 2 -> 5000
                       [] retryCount = 3 -> 10000
                       [] retryCount = 4 -> 20000
                       [] OTHER -> 30000
          /\ ENABLED RetryTimerFires)
  /\ [][initPc = "sleep" => initPc' \in {"sleep", "init"}]_vars
  /\ [](dbReady <=> initPc = "returned")
  /\ [][initPc = "returned" => initPc' = "returned" /\ dbReady']_vars

\* the fifth failure: the first wait of 30 seconds
C10_Witness == initPc = "sleep" /\ retryCount = 5 /\ delay = 30000

(***************************************************************************)
(* The status of the records.                                              *)
(***************************************************************************)
RunningRecords == {id \in DOMAIN runs : runs[id].status = "running"}

\* C4: no two records have the status running at the same time, in every
\* interleaving of the executeRun calls of the queue and of the requests
\* POST /runs/:id/retry (checked under Spec); stated for the behaviours in
\* which no store call has thrown.
C4_AtMostOneRunning == storeFailures = 0 => Cardinality(RunningRecords) <= 1

AutomaticStatusChanges ==
  {<<"queued", "running">>, <<"running", "done">>, <<"running", "failed">>}

\* C5: the status of a record that is never retried changes only from queued
\* to running, from running to done and from running to failed; once done or
\* failed it does not change (checked under SpecQueue, where no record is
\* retried).
C5_AutomaticStatusChanges ==
  [][\A id \in DOMAIN runs :
        \/ runs'[id].status = runs[id].status
        \/ <<runs[id].status, runs'[id].status>> \in AutomaticStatusChanges]_vars

\* the record of the task k
RecordOf(k) == runs[tasks[k].id]

\* C6: every record created by enqueueRun ends with the status done or failed
\* when every awaited call returns or throws: once the executeRun call of a
\* record has settled, nothing else will write the record, and its status is
\* done or failed (checked under SpecQueue).
C6_SettledRunIsDoneOrFailed ==
  \A k \in TaskIds : Settled(k) => RecordOf(k).status \in {"done", "failed"}

\* C7: when recordAudio or transcribe throws in executeRun, the record ends
\* with the status failed and the message of the exception as its error, the
\* analysis is not invoked, and transcript, decoded_summary,
\* likely_acdc_reference and confidence are those of the fresh record
\* (checked under SpecQueue).
C7_StageFailureEndsFailed ==
  \A k \in TaskIds :
     Settled(k) /\ tasks[k].threw \in {"recordAudio", "transcribe"} =>
        /\ RecordOf(k).status = "failed"
        /\ RecordOf(k).error = <<tasks[k].message>>
        /\ ~tasks[k].analyzed
        /\ RecordOf(k).transcript = NULL
        /\ RecordOf(k).decoded_summary = NULL
        /\ RecordOf(k).likely_acdc_reference = NULL
        /\ RecordOf(k).confidence = NullNum

\* C8: once recordAudio and transcribe have succeeded in executeRun, the
\* record ends with the status done (checked under SpecQueue).
C8_AnalyzedRunEndsDone ==
  \A k \in TaskIds : Settled(k) /\ tasks[k].analyzed => RecordOf(k).status = "done"

(***************************************************************************)
(* The retry handler.                                                      *)
(***************************************************************************)
\* the step is a step of the retry handler r
RetryStepOf(r) ==
  \/ retries' = RemoveAt(retries, r)
  \/ Len(retries') = Len(retries) /\ retries'[r] # retries[r]

\* the step is the answer 404 or 400 of the retry handler r
RetryRejectedInStep(r, code) ==
  /\ RetryAt(r, "getRun")
  /\ retries' = RemoveAt(retries, r)
  /\ lastResp' = RetryAnswer(code)

\* the retry handler r has passed its two checks
RetryAccepted(r) == retries[r].pc # "getRun"

HasTranscript(id) ==
  /\ id \in DOMAIN runs
  /\ runs[id].transcript # NULL
  /\ Trim(runs[id].transcript) # <<>>

\* C11: a retry request is accepted only for a record that exists and whose
\* stored transcript is not empty once trimmed.  A request for an unknown id
\* is answered 404 and one for a record with a null or an empty transcript is
\* answered 400, and that answer ends the handler: no record is changed and
\* the analysis is not reached (checked under SpecRetry).
C11_RetryAcceptedOnlyWithTranscript ==
  /\ [](\A r \in RetrySlots : RetryAccepted(r) => HasTranscript(retries[r].id))
  /\ [][\A r \in RetrySlots :
          /\ (/\ RetryAt(r, "getRun") /\ ~HasTranscript(retries[r].id)
              /\ RetryStepOf(r) /\ Alive')
               => /\ RetryRejectedInStep(r, IF retries[r].id \in DOMAIN runs
                                            THEN "400" ELSE "404")
                  /\ runs' = runs
          /\ (RetryRejectedInStep(r, "404") \/ RetryRejectedInStep(r, "400"))
               => /\ ~HasTranscript(retries[r].id)
                  /\ runs' = runs]_vars

\* a request for a record that has no transcript yet has been answered 400
C11_Witness ==
  /\ lastResp = RetryAnswer("400")
  /\ \E id \in DOMAIN runs : runs[id].transcript = NULL

\* the columns of a record that belong to the run and not to its analysis
RetryKeptColumns == {"id", "created_at_utc", "duration_seconds", "transcript"}

\* C12: no step of a retry handler, whether the retry ends in done or in
\* failed, changes the id, created_at, duration_seconds or transcript of a
\* record, or removes a record (checked under SpecRetry).
C12_RetryKeepsRunColumns ==
  [][\A r \in RetrySlots :
       RetryStepOf(r) =>
         \A id \in DOMAIN runs :
            /\ id \in DOMAIN runs'
            /\ \A c \in RetryKeptColumns : runs'[id][c] = runs[id][c]]_vars

\* a retry has ended in failed: the record was done after its run, and the
\* retry has written failed and its own lines over it
C12_Witness ==
  /\ lastResp = RetryAnswer("500")
  /\ \E id \in DOMAIN runs :
        /\ runs[id].status = "failed"
        /\ runs[id].transcript # NULL
        /\ "[RETRY] Retry failed" \in Range(runs[id].run_logs)

\* the step is a write of run_logs by the retry handler r: the update that ends
\* the retry in done, or the one of its catch block
RetryWritesLogs(r) ==
  /\ RetryStepOf(r)
  /\ retries[r].pc \in {"updateDone", "updateFailed"}
  /\ storeFailures' = storeFailures
  /\ "run_logs" \in table

\* C13: a retry appends to run_logs.  The handler keeps the record it read
\* when the request arrived, and each of its two writes of run_logs stores the
\* lines that record had, all of them and in their order, followed by the
\* lines the retry has logged, of which there is at least one (checked under
\* SpecRetry).
C13_RetryAppendsToRunLogs ==
  [][\A r \in RetrySlots :
       /\ RetryAt(r, "getRun") /\ RetryStepOf(r) /\ Len(retries') = Len(retries)
            => retries'[r].run = <<runs[retries[r].id]>>
       /\ RetryWritesLogs(r)
            => LET before == retries[r].run[1].run_logs
                   stored == runs'[retries[r].id].run_logs
                   n      == IF before = NULL THEN 0 ELSE Len(before)
               IN  /\ Len(stored) = n + Len(retries[r].retryLogs)
                   /\ retries[r].retryLogs # <<>>
                   /\ \A i \in 1..n : stored[i] = before[i]
                   /\ \A i \in 1..Len(retries[r].retryLogs) :
                         stored[n + i] = retries[r].retryLogs[i]]_vars

\* a retry of a run whose log had been flushed has ended in done: the stored
\* run_logs begins with the run's lines and goes on with the retry's
C13_Witness ==
  /\ lastResp = RetryAnswer("200")
  /\ \E id \in DOMAIN runs :
        /\ runs[id].status = "done"
        /\ runs[id].run_logs # NULL
        /\ \E i \in 1..Len(runs[id].run_logs) :
              /\ i > 1
              /\ runs[id].run_logs[1] = "[INFO] Run started."
              /\ runs[id].run_logs[i - 1] = "[INFO] Run finished"
              /\ runs[id].run_logs[i] = "[RETRY] Manual retry requested."

\* the awaits of the retry handler: db.getRun, db.updateRun,
\* analyzeExistingTranscript, db.updateRun, db.getRun, and the db.updateRun of
\* its catch block
RetryPcs == {"getRun", "updateRunning", "analyze", "updateDone", "getUpdated",
             "updateFailed"}

\* the step is the arrival of a retry request
RetryArrives == Len(retries') = Len(retries) + 1

\* C14: a retry re-executes the analysis only.  recordAudio (which alone reads
\* and writes the cookie file) and transcribe are called by executeRun and by
\* nothing else, a retry handler is never suspended in either of them, and no
\* step of a retry handler and no arrival of a retry request enqueues, starts
\* or advances an executeRun call (checked under SpecRetry).
C14_RetryOnlyAnalyzes ==
  /\ [](\A r \in RetrySlots : retries[r].pc \in RetryPcs)
  /\ [][RetryArrives \/ (\E r \in RetrySlots : RetryStepOf(r))
          => UNCHANGED <<tasks, queue, running, started, pending, calls>>]_vars

\* a retry has ended in done and the only run has recorded audio once, before
\* the retry
C14_Witness ==
  /\ lastResp = RetryAnswer("200")
  /\ Len(tasks) = 1
  /\ Settled(1)
  /\ Cardinality({i \in 1..Len(tasks[1].logs) :
                    tasks[1].logs[i] = "[INFO] Recording audio from stream"}) = 1

(***************************************************************************)
(* The analysis.                                                           *)
(***************************************************************************)
\* a non-empty string of upper-case letters and digits
IsUpperToken(s) ==
  /\ s # <<>>
  /\ \A i \in 1..Len(s) : s[i] \in UpperSet \cup DigitSet

\* C15: in every state, after any sequence of executor runs and retries,
\* the decoded_summary and the likely_acdc_reference of every record are
\* null or one non-empty token of upper-case letters and digits, the
\* sentinel UNKNOWN included (checked under Spec).
C15_StoredResultsAreTokens ==
  \A id \in DOMAIN runs :
     \A c \in {"decoded_summary", "likely_acdc_reference"} :
        runs[id][c] = NULL \/ IsUpperToken(runs[id][c])

\* the remote answers 'rosie!' and 'tnt' have been stored as ROSIE and TNT
C15_Witness ==
  \E id \in DOMAIN runs :
     /\ runs[id].decoded_summary = <<"R","O","S","I","E">>
     /\ runs[id].likely_acdc_reference = <<"T","N","T">>

\* no word of the transcript is a clue word or a run of hyphenated letters
NoClue(transcript) ==
  \A i \in 1..Len(TranscriptWords(transcript)) :
     ~IsClueWord(TranscriptWords(transcript)[i])

\* the lines analyzeExistingTranscript logs after a remote call
RemoteCallLogs ==
  {"OpenAI snippet decode failed", "OpenAI snippet decode returned",
   "OpenAI full analysis failed", "OpenAI full analysis likely"}

\* executeRun k has received the result of the analysis
Analyzed(k) == tasks[k].res # NoResult

\* C16: for a transcript with no clue word and no hyphen-letter pattern the
\* analysis returns decodedSummary UNKNOWN, likely UNKNOWN, confidence 0 and
\* errorNote null, with or without credential, and logs no remote call; the
\* run that executes it writes done with these values and a null error, and
\* the record is done with them from then on (checked under SpecAnalysis).
C16_NoClueIsUnknownAndDone ==
  \A k \in TaskIds :
     Analyzed(k) /\ NoClue(tasks[k].transcript) =>
        /\ tasks[k].res.decodedSummary = UNKNOWN
        /\ tasks[k].res.likely = UNKNOWN
        /\ tasks[k].res.confidence = Num(0)
        /\ tasks[k].res.errorNote = NULL
        /\ Range(tasks[k].res.analysisLogs) \cap RemoteCallLogs = {}
        /\ tasks[k].pc \in {"flush", "resolved", "rejected"} =>
              /\ RecordOf(k).status = "done"
              /\ RecordOf(k).error = NULL
              /\ RecordOf(k).decoded_summary = UNKNOWN
              /\ RecordOf(k).likely_acdc_reference = UNKNOWN
              /\ RecordOf(k).confidence = Num(0)

\* text.includes(sub)
Contains(text, sub) ==
  \E p \in 0..(Len(text) - Len(sub)) : SubSeq(text, p + 1, p + Len(sub)) = sub

\* C17: for every transcript that contains the text 'keyword S-O-I-E-R',
\* with no decode credential configured, the analysis returns decodedSummary
\* ROSIE and an errorNote that mentions the missing credential (checked under
\* SpecAnalysis).
C17_KeywordSoierIsRosie ==
  \A k \in TaskIds :
     /\ Analyzed(k)
     /\ config.openAiApiKey = ""
     /\ Contains(tasks[k].transcript,
                 <<"k","e","y","w","o","r","d"," ","S","-","O","-","I","-","E","-","R">>)
     => /\ tasks[k].res.decodedSummary = <<"R","O","S","I","E">>
        /\ tasks[k].res.errorNote = <<NoteKeyMissing>>

\* the result of the local resolver for a transcript with a scramble context:
\* the candidate whose letters are the first letter run of the context, or
\* UNKNOWN when there is no such run or no such candidate
LocalResult(transcript) ==
  LET letters == extractHyphenLetters(extractScrambleContext(transcript).snippet)
  IN  IF letters = NULL THEN UNKNOWN ELSE localDecodeFromLetters(letters)

\* C18: when a scramble context is found and no decode credential is
\* configured, the analysis logs no remote call, and the run ends with the
\* status done, decoded_summary the result of the local resolver (TNT for
\* 'the keyword today is T-N-T', ROSIE for 'keyword S-O-I-E-R'),
\* likely_acdc_reference UNKNOWN and the note of the skipped remote decode
\* as its error (checked under SpecAnalysis).
C18_NoCredentialKeepsLocalResult ==
  \A k \in TaskIds :
     /\ Analyzed(k)
     /\ config.openAiApiKey = ""
     /\ extractScrambleContext(tasks[k].transcript).found
     => /\ Range(tasks[k].res.analysisLogs) \cap RemoteCallLogs = {}
        /\ tasks[k].res.decodedSummary = LocalResult(tasks[k].transcript)
        /\ tasks[k].transcript = transcribe(TntOutput)
              => tasks[k].res.decodedSummary = <<"T","N","T">>
        /\ tasks[k].transcript = transcribe(RosieOutput)
              => tasks[k].res.decodedSummary = <<"R","O","S","I","E">>
        /\ tasks[k].res.likely = UNKNOWN
        /\ tasks[k].res.errorNote = <<NoteKeyMissing>>
        /\ tasks[k].pc \in {"flush", "resolved", "rejected"} =>
              /\ RecordOf(k).status = "done"
              /\ RecordOf(k).decoded_summary = tasks[k].res.decodedSummary
              /\ RecordOf(k).likely_acdc_reference = UNKNOWN
              /\ RecordOf(k).error = <<NoteKeyMissing>>

(***************************************************************************)
(* The ids of the records.                                                 *)
(***************************************************************************)
\* the step is the return, or the exception, of the i-th suspended enqueueRun
EnqueueRunReturns(i) ==
  /\ pending' = RemoveAt(pending, i)
  /\ lastResp' = QueuedAnswer(pending[i].source)
EnqueueRunThrows(i) ==
  /\ pending' = RemoveAt(pending, i)
  /\ lastResp' = ErrorAnswer(pending[i].source)

\* C19: the id of a run that enqueueRun returns is the id of no record that
\* was in the store, and it is the id of the record created and of the task
\* enqueued; when the id generated is that of a record in the store, createRun
\* throws, enqueueRun throws, and no record and no task is added or changed.
\* No step removes a record or changes the id of one (checked under
\* SpecQueue; C12 is the same for the steps of a retry).
C19_IdsAreUniqueAndKept ==
  /\ [](\A id \in DOMAIN runs : runs[id].id = id)
  /\ [](\A j, k \in TaskIds : tasks[j].id = tasks[k].id => j = k)
  /\ [][/\ DOMAIN runs \subseteq DOMAIN runs'
        /\ \A i \in PendingCalls :
              /\ EnqueueRunReturns(i) =>
                    /\ pending[i].id \notin DOMAIN runs
                    /\ DOMAIN runs' = DOMAIN runs \cup {pending[i].id}
                    /\ Len(tasks') = Len(tasks) + 1
                    /\ tasks'[Len(tasks')].id = pending[i].id
              /\ (createRunThrows(runs, pending[i].id) /\ pending' = RemoveAt(pending, i))
                    => /\ EnqueueRunThrows(i)
                       /\ UNCHANGED <<runs, tasks, queue, running, started>>]_vars

\* generateRunId has returned the id of a record of the store, and enqueueRun
\* has thrown although no store call failed for another reason
C19_Witness ==
  /\ lastResp \in {ErrorAnswer("manual"), ErrorAnswer("scheduled")}
  /\ storeFailures = 0
  /\ Len(calls) = 2
  /\ calls[1] = calls[2]
  /\ DOMAIN runs = {calls[1]}

(***************************************************************************)
(* The API key.                                                            *)
(***************************************************************************)
\* the endpoint checks the key of the request
KeyChecked(ep) == ep = "secure" \/ config.requireApiKey

\* the header is the configured key, and that key is not empty
KeyMatches(key) == config.backendApiKey # "" /\ key = config.backendApiKey

\* C20: POST /run/secure lets a request through to enqueueRun only if its
\* X-API-KEY header equals the configured BACKEND_API_KEY and that key is not
\* empty; otherwise it answers 401 and nothing is created or enqueued.  POST
\* /run does the same when REQUIRE_API_KEY is true, and lets every request
\* through when it is not (checked under SpecAuth).
C20_ApiKeyGuardsTheTriggers ==
  [][\A ep \in Endpoints, key \in HeaderKeys, id \in generateRunId :
       PostRun(ep, key, id) =>
          IF KeyChecked(ep) /\ ~KeyMatches(key)
          THEN /\ lastResp' = [ep |-> "manual", code |-> "401"]
               /\ UNCHANGED <<runs, pending, calls, tasks, queue, running, started>>
          ELSE /\ lastResp'.code # "401"
               /\ dbReady => pending' = Append(pending, [id |-> id, source |-> "manual"])
               /\ ~dbReady => lastResp'.code = "503"]_vars

\* a request has been answered 401 by POST /run/secure (POST /run does not
\* check the key in this configuration) after another one was let through
C20_Witness ==
  /\ lastResp = [ep |-> "manual", code |-> "401"]
  /\ ~config.requireApiKey
  /\ config.backendApiKey = "secret"
  /\ Len(calls) = 1

(***************************************************************************)
(* The queue, continued.                                                   *)
(***************************************************************************)
\* C21: the queue is work-conserving.  In every state (control is back in the
\* event loop) in which a task waits in the queue some task is in flight, and
\* a task that enqueue receives while the queue is idle has been started when
\* enqueue returns (checked under SpecQueue).
C21_WorkConserving ==
  /\ [](queue # <<>> => TasksInFlight # {})
  /\ [][(Len(tasks') = Len(tasks) + 1 /\ ~running)
          => /\ running'
             /\ queue' = <<>>
             /\ tasks'[Len(tasks')].pc = "updateRunning"
             /\ started' = Append(started, Len(tasks'))]_vars

\* the second run was enqueued after the first had settled, on an idle queue,
\* and is in flight; nothing waits
C21_Witness ==
  /\ Len(tasks) = 2
  /\ Settled(1)
  /\ InFlight(2)
  /\ queue = <<>>
  /\ Len(calls) = 2


(***************************************************************************)
(* The triggers and the queue.                                             *)
(***************************************************************************)
\* the position in started of the task of run id
StartOf(id) == CHOOSE p \in 1..Len(started) : tasks[started[p]].id = id
HasStarted(id) == \E p \in 1..Len(started) : tasks[started[p]].id = id

\* C22: runs start in the order in which enqueueRun was called: of two runs
\* whose ids differ, the one whose enqueueRun call came first has started
\* whenever the other has, and started before it.
C22_StartInCallOrder ==
  \A i, j \in 1..Len(calls) :
    (i < j /\ calls[i] # calls[j] /\ HasStarted(calls[j]))
      => /\ HasStarted(calls[i])
         /\ StartOf(calls[i]) < StartOf(calls[j])


(***************************************************************************)
(* The retry handler and the record's status.                              *)
(***************************************************************************)
\* in this step the retry handler r's db.updateRun(id, {status: 'running'})
\* completes
RetryWritesRunning(r) ==
  /\ r \in RetrySlots
  /\ RetryAt(r, "updateRunning")
  /\ RetryStepOf(r)
  /\ storeFailures' = storeFailures

\* C23: a retry writes status running only over status done: the record's
\* status is done in the state before the write.
C23_RetryRunsOnlyFromDone ==
  [][\A r \in RetrySlots :
       RetryWritesRunning(r) => runs[retries[r].id].status = "done"]_vars


(***************************************************************************)
(* executeRun and its errors.                                              *)
(***************************************************************************)
\* C24: executeRun catches its own errors: a call that has settled has
\* resolved, and when one of its steps threw, the record has the status failed
\* and the message of the exception as its error (checked under SpecQueue).
C24_ExecuteRunCatchesItsErrors ==
  \A k \in TaskIds :
     Settled(k) =>
        /\ tasks[k].pc = "resolved"
        /\ tasks[k].threw # "" =>
              /\ RecordOf(k).status = "failed"
              /\ RecordOf(k).error = <<tasks[k].message>>


(***************************************************************************)
(* The analysis with a decode credential.                                  *)
(***************************************************************************)
\* the analysis of executeRun k made the two remote calls
RemoteCallsMade(k) ==
  /\ Analyzed(k)
  /\ config.openAiApiKey # ""
  /\ extractScrambleContext(tasks[k].transcript).found

\* what the analysis of executeRun k logged about its two remote calls
SnippetCallFailed(k) == "OpenAI snippet decode failed" \in Range(tasks[k].res.analysisLogs)
SnippetCallReturned(k) == "OpenAI snippet decode returned" \in Range(tasks[k].res.analysisLogs)
FullCallFailed(k) == "OpenAI full analysis failed" \in Range(tasks[k].res.analysisLogs)
FullCallReturned(k) == "OpenAI full analysis likely" \in Range(tasks[k].res.analysisLogs)

\* the notes of the failed remote calls, in the order of the calls
FailureNotes(k) ==
  (IF SnippetCallFailed(k) THEN <<NoteSnippetFailed>> ELSE <<>>)
    \o (IF FullCallFailed(k) THEN <<NoteAnalysisFailed>> ELSE <<>>)

\* C25: with a scramble context and a credential each of the two remote calls
\* is made and either returns or fails.  decodedSummary is the answer of the
\* snippet decode (ROSIE for the answer 'rosie!') when that call returns and
\* the result of the local resolver when it fails; likely and confidence are
\* those of the full-transcript answer (TNT, and 1.7 clamped to 1) when that
\* call returns and UNKNOWN and 0 when it fails; errorNote holds one note per
\* failed call, in the order of the calls, and is null when neither fails
\* (checked under SpecAnalysis).
C25_RemoteResultsAndNotes ==
  \A k \in TaskIds :
     RemoteCallsMade(k) =>
        /\ SnippetCallFailed(k) # SnippetCallReturned(k)
        /\ FullCallFailed(k) # FullCallReturned(k)
        /\ SnippetCallReturned(k) => tasks[k].res.decodedSummary = <<"R","O","S","I","E">>
        /\ SnippetCallFailed(k) => tasks[k].res.decodedSummary = LocalResult(tasks[k].transcript)
        /\ FullCallReturned(k) =>
              /\ tasks[k].res.likely = <<"T","N","T">>
              /\ tasks[k].res.confidence = Num(100)
        /\ FullCallFailed(k) =>
              /\ tasks[k].res.likely = UNKNOWN
              /\ tasks[k].res.confidence = Num(0)
        /\ tasks[k].res.errorNote = (IF FailureNotes(k) = <<>> THEN NULL ELSE FailureNotes(k))

\* both remote calls of a run on 'the keyword today is T-N-T' failed: the
\* local result TNT is kept and the two notes are the error of the record
C25_Witness ==
  \E k \in TaskIds :
     /\ tasks[k].pc = "resolved"
     /\ RemoteCallsMade(k)
     /\ tasks[k].transcript = transcribe(TntOutput)
     /\ SnippetCallFailed(k) /\ FullCallFailed(k)
     /\ RecordOf(k).decoded_summary = <<"T","N","T">>
     /\ RecordOf(k).error = <<NoteSnippetFailed, NoteAnalysisFailed>>


\* executeRun k has written its done update, the only write of the transcript
WroteDone(k) == RecordOf(k).transcript # NULL

\* C26: the likely_acdc_reference that a run persists is that of the
\* full-transcript analysis alone: it is UNKNOWN unless that call was made and
\* returned, and then it is the returned value (TNT), whatever the local
\* resolver and the snippet decode found (checked under SpecAnalysis).
C26_LikelyFromFullAnalysisOnly ==
  \A k \in TaskIds :
     WroteDone(k) =>
        /\ RecordOf(k).likely_acdc_reference \in {UNKNOWN, <<"T","N","T">>}
        /\ RecordOf(k).likely_acdc_reference # UNKNOWN
              => RemoteCallsMade(k) /\ FullCallReturned(k)
        /\ (RemoteCallsMade(k) /\ FullCallReturned(k))
              => RecordOf(k).likely_acdc_reference = <<"T","N","T">>

\* the local resolver found ROSIE, the snippet decode failed and the
\* full-transcript analysis returned TNT: the record has decoded_summary ROSIE
\* and likely_acdc_reference TNT
C26_Witness ==
  \E k \in TaskIds :
     /\ tasks[k].pc = "resolved"
     /\ RemoteCallsMade(k)
     /\ SnippetCallFailed(k) /\ FullCallReturned(k)
     /\ RecordOf(k).decoded_summary = <<"R","O","S","I","E">>
     /\ RecordOf(k).likely_acdc_reference = <<"T","N","T">>


(***************************************************************************)
(* The stored log.                                                         *)
(***************************************************************************)
\* the lines of the stored run_logs of a record: none when the column is null
\* and when the table has no such column
StoredLogs(rec) ==
  IF "run_logs" \in DOMAIN rec /\ rec.run_logs # NULL THEN rec.run_logs ELSE <<>>

\* C27: the stored run_logs of a record never holds more than 400 lines,
\* after any number of retries of the record (checked under SpecLogs).
C27_StoredLogsWithinCap ==
  \A id \in DOMAIN runs : Len(StoredLogs(runs[id])) <= LogCap


\* C28: run_logs is append-only: a line that is in the stored run_logs of a
\* record is in the stored run_logs of that record after every step, for
\* every interleaving of executeRun's final flush with the retry requests for
\* the record (checked under SpecRetry; the clear at run start finds no log).
C28_StoredLogsAppendOnly ==
  [][\A id \in DOMAIN runs :
       Range(StoredLogs(runs[id])) \subseteq Range(StoredLogs(runs'[id]))]_vars


\* the lines of a run that ends done, in their order: the stage boundaries,
\* the lines of the analysis, and the last line
StageLines ==
  <<"[INFO] Run started.", "[INFO] Recording audio from stream",
    "[INFO] Recording completed", "[INFO] Starting transcription.",
    "[INFO] Transcription completed", "[INFO] Starting transcript analysis.">>
DoneLines(k) ==
  StageLines
    \o [i \in 1..Len(tasks[k].res.analysisLogs) |-> "[INFO] " \o tasks[k].res.analysisLogs[i]]
    \o <<"[INFO] Run finished">>

\* logs without the line that reports an UNKNOWN likely reference
IsUnknownLine(line) == line = "[ERROR] Final likely AC/DC reference is UNKNOWN."
NotUnknownLine(line) == ~IsUnknownLine(line)
WithoutUnknownLine(logs) == SelectSeq(logs, NotUnknownLine)

IsPrefix(s, t) == Len(s) <= Len(t) /\ SubSeq(t, 1, Len(s)) = s

\* in this step executeRun k sets its record to running
ExecutorWritesRunning(k) ==
  /\ AtPc(k, "updateRunning")
  /\ tasks'[k].pc = "recordAudio"

\* C29: executeRun clears the stored run_logs when it sets the record to
\* running, and when it has settled the stored log of a done record holds the
\* stage lines, the lines of the analysis and the line of the end, in this
\* order, and the stored log of a failed record holds the lines up to the
\* failing stage followed by the 'Run failed' line (checked under SpecQueue).
C29_RunLogIsPersisted ==
  /\ [][\A k \in TaskIds :
          ExecutorWritesRunning(k)
            => "run_logs" \in DOMAIN RecordOf(k)' /\ RecordOf(k)'.run_logs = <<>>]_vars
  /\ [](\A k \in TaskIds :
          Settled(k) =>
             /\ RecordOf(k).status = "done"
                   => WithoutUnknownLine(StoredLogs(RecordOf(k))) = DoneLines(k)
             /\ RecordOf(k).status = "failed"
                   => /\ StoredLogs(RecordOf(k)) # <<>>
                      /\ StoredLogs(RecordOf(k))[Len(StoredLogs(RecordOf(k)))] = "[ERROR] Run failed"
                      /\ IsPrefix(WithoutUnknownLine(
                                    SubSeq(StoredLogs(RecordOf(k)), 1,
                                           Len(StoredLogs(RecordOf(k))) - 1)),
                                  DoneLines(k)))


(***************************************************************************)
(* The store.                                                              *)
(***************************************************************************)
\* the step is a call of updateRun
UpdateRunCalled ==
  /\ lastResp'.ep = "updateRun"
  /\ <<runs, lastResp>>' # <<runs, lastResp>>

\* C30: updateRun(id, patch) is a sparse patch: after a call that returns the
\* record id has the value of patch in every field that patch defines (null
\* included) and its old value in every other field, the fields that patch
\* gives as undefined included; the other records and the set of records are
\* unchanged; with no defined field nothing changes (checked under
\* SpecStore, on both tables).
C30_UpdateRunIsSparsePatch ==
  [][UpdateRunCalled =>
       LET id == lastResp'.code.id
           patch == lastResp'.code.patch
       IN  /\ DOMAIN runs' = DOMAIN runs
           /\ \A i \in DOMAIN runs, c \in table :
                 runs'[i][c] = IF i = id /\ c \in DOMAIN patch.defined
                               THEN patch.defined[c]
                               ELSE runs[i][c]
           /\ DOMAIN patch.defined = {} => runs' = runs]_vars

\* the latest call was updateRun(1, {run_logs: undefined, error: null}) on a
\* table of two records: record 1 has kept its run_logs and has a null
\* error, record 2 has kept its error
C30_Witness ==
  /\ lastResp.ep = "updateRun"
  /\ lastResp.code.id = 1
  /\ lastResp.code.patch.undefined = {"run_logs"}
  /\ lastResp.code.patch.defined = [c \in {"error"} |-> NULL]
  /\ DOMAIN runs = {1, 2}
  /\ table = LogColumns
  /\ runs[1].run_logs = <<"e">>
  /\ runs[1].error = NULL
  /\ runs[2].error = <<"e">>


(***************************************************************************)
(* The readiness of the store.                                             *)
(***************************************************************************)
\* C31: dbReady, once true, stays true, and it is true whenever an enqueueRun
\* call is suspended, a task waits in the queue or a task is in flight: the
\* store-not-ready condition arises at enqueueRun only (checked under
\* SpecQueue).
C31_ReadyDuringRuns ==
  /\ [][dbReady => dbReady']_vars
  /\ []((pending # <<>> \/ queue # <<>> \/ TasksInFlight # {}) => dbReady)

\* initDbWithRetry has returned with the store ready; a task is in flight and
\* another waits
C31_Witness ==
  /\ dbReady
  /\ storeFailures = 0
  /\ TasksInFlight # {}
  /\ queue # <<>>
  /\ initPc = "returned"


(***************************************************************************)
(* The transcript of a record.                                             *)
(***************************************************************************)
\* in this step the retry handler r passes its two checks
RetryAcceptedInStep(r) ==
  /\ RetryAt(r, "getRun")
  /\ Len(retries') = Len(retries)
  /\ retries'[r].pc = "updateRunning"

\* executeRun has completed the stages of the record id and has not failed
CompletedInExecutor(id) ==
  \E k \in TaskIds :
     /\ tasks[k].id = id
     /\ tasks[k].pc \in {"flush", "resolved"}
     /\ tasks[k].threw = ""

\* C32: the transcript of a record is written once, over null, by the update
\* of executeRun that sets the status done, and a retry is accepted only for
\* a record whose executeRun has completed its stages and has not failed
\* (checked under Spec).
C32_TranscriptWrittenOnce ==
  /\ [][\A id \in DOMAIN runs :
          runs'[id].transcript # runs[id].transcript
            => /\ runs[id].transcript = NULL
               /\ runs'[id].status = "done"
               /\ \E k \in TaskIds : AtPc(k, "updateDone") /\ tasks[k].id = id]_vars
  /\ [][\A r \in RetrySlots :
          RetryAcceptedInStep(r) => CompletedInExecutor(retries[r].id)]_vars


(***************************************************************************)
(* The status queued.                                                      *)
(***************************************************************************)
\* the task of the record id waits in the queue, or the worker has called it
\* and it is suspended in its first store call, the update that sets running
NotPickedUp(id) ==
  \A k \in TaskIds : tasks[k].id = id => tasks[k].pc \in {"waiting", "updateRunning"}

\* C33: a record has the status queued only until the queue worker has
\* started its task and the first update of the task has set it to running,
\* and no step writes the status queued to an existing record (checked under
\* SpecQueue).
C33_QueuedUntilPickedUp ==
  /\ [](\A id \in DOMAIN runs : runs[id].status = "queued" => NotPickedUp(id))
  /\ [][\A id \in DOMAIN runs :
          runs'[id].status = "queued" => runs[id].status = "queued"]_vars


(***************************************************************************)
(* Overlapping retries.                                                    *)
(***************************************************************************)
\* the retry handler r has written running and not yet its final update
RetryBetweenWrites(r) == retries[r].pc \in {"analyze", "updateDone"}

\* C34: while a retry of a record is between its running write and its final
\* write, the stored status of the record is running, also when two retries
\* of the record overlap (checked under SpecOverlap).
C34_RunningWhileRetryInFlight ==
  \A r \in RetrySlots :
     RetryBetweenWrites(r) => runs[retries[r].id].status = "running"


(***************************************************************************)
(* One record and one task for each run.                                   *)
(***************************************************************************)
\* C35: there is one task for each record and one record for each task: an
\* enqueueRun that returns has added one record and one task, an enqueueRun
\* that throws, whatever made createRun fail, has added neither; no two
\* starts of the worker are for the same run id, and every task, waiting ones
\* included, is that of a record of the store (checked under SpecQueue).
C35_OneTaskPerRecord ==
  /\ [](Len(tasks) = Cardinality(DOMAIN runs))
  /\ [](\A k \in TaskIds : tasks[k].id \in DOMAIN runs)
  /\ [](\A p, q \in 1..Len(started) :
          tasks[started[p]].id = tasks[started[q]].id => p = q)
  /\ [][\A i \in PendingCalls :
          /\ EnqueueRunReturns(i) =>
                /\ Cardinality(DOMAIN runs') = Cardinality(DOMAIN runs) + 1
                /\ Len(tasks') = Len(tasks) + 1
                /\ Len(queue') + Len(started') = Len(queue) + Len(started) + 1
          /\ EnqueueRunThrows(i) => UNCHANGED <<runs, tasks, queue, started>>]_vars

\* three enqueueRun calls, one of which threw because its createRun failed in
\* the store: two records, two tasks, one of them waiting
C35_Witness ==
  /\ Len(calls) = 3
  /\ pending = <<>>
  /\ storeFailures = 1
  /\ Cardinality(DOMAIN runs) = 2
  /\ Len(tasks) = 2
  /\ Len(queue) = 1


(***************************************************************************)
(* The retry whose result is UNKNOWN.                                      *)
(***************************************************************************)
\* in this step the done update of the retry handler r completes
RetryWritesDone(r) ==
  /\ RetryAt(r, "updateDone")
  /\ RetryStepOf(r)
  /\ storeFailures' = storeFailures

\* in this step the failed update of the retry handler r completes
RetryWritesFailed(r) ==
  /\ RetryAt(r, "updateFailed")
  /\ RetryStepOf(r)
  /\ storeFailures' = storeFailures

\* C36: the done update of a retry whose analysis gave likely UNKNOWN stores
\* status done, an error made of the errorNote of the analysis, when there is
\* one, followed by the 'still UNKNOWN' note, and a log that ends with the
\* lines of the retry, the line of that note among them; when likely is not
\* UNKNOWN the error is the errorNote and the retry logs no such line.  A
\* retry writes failed only when a store call of it has thrown (checked
\* under SpecNotes).
C36_RetryUnknownIsDoneWithNote ==
  [][\A r \in RetrySlots :
       /\ RetryWritesDone(r) =>
            LET rec == runs'[retries[r].id]
                note == retries[r].res.errorNote
            IN  /\ rec.status = "done"
                /\ retries[r].res.likely = UNKNOWN =>
                      /\ rec.error = (IF note = NULL THEN <<UnknownMessage>>
                                      ELSE note \o <<UnknownMessage>>)
                      /\ ("[RETRY] " \o UnknownMessage) \in Range(retries[r].retryLogs)
                /\ retries[r].res.likely # UNKNOWN =>
                      /\ rec.error = note
                      /\ ("[RETRY] " \o UnknownMessage) \notin Range(retries[r].retryLogs)
                /\ Len(retries[r].retryLogs) <= Len(rec.run_logs)
                /\ SubSeq(rec.run_logs,
                          Len(rec.run_logs) - Len(retries[r].retryLogs) + 1,
                          Len(rec.run_logs)) = retries[r].retryLogs
       /\ RetryWritesFailed(r) =>
            /\ storeFailures > 0
            /\ retries[r].message = StoreErrorMessage
            /\ runs'[retries[r].id].status = "failed"]_vars

\* a retry with credential whose two remote calls failed has answered 200:
\* the record is done and its error holds the two notes of the analysis and
\* then the 'still UNKNOWN' note
C36_Witness ==
  /\ lastResp = RetryAnswer("200")
  /\ storeFailures = 0
  /\ \E id \in DOMAIN runs :
        /\ runs[id].status = "done"
        /\ runs[id].error = <<NoteSnippetFailed, NoteAnalysisFailed, UnknownMessage>>
        /\ ("[RETRY] " \o UnknownMessage) \in Range(runs[id].run_logs)


(***************************************************************************)
(* The local resolver and the normalisation.                               *)
(***************************************************************************)
\* the number of occurrences of the character c in s
CountOf(s, c) == Cardinality({i \in 1..Len(s) : s[i] = c})

\* a and b have the same letters, whatever their order and their case
SameLetters(a, b) ==
  /\ Len(a) = Len(b)
  /\ \A c \in Range(ToUpperCase(a)) :
        CountOf(ToUpperCase(a), c) = CountOf(ToUpperCase(b), c)

\* the first candidate that has the letters of the input, or UNKNOWN
FirstAnagram(letters) ==
  LET Hits == {i \in 1..Len(Candidates) : SameLetters(letters, Candidates[i])}
  IN  IF Hits = {} THEN UNKNOWN
      ELSE Candidates[CHOOSE i \in Hits : \A j \in Hits : i <= j]

\* C37: for the letters of a transcript, written in any order and any case,
\* the result of localDecodeFromLetters is the first candidate that has
\* those letters, in upper case, and UNKNOWN when no candidate has them; so
\* two spellings with the same letters give the same result (checked under
\* SpecLetters, on every call the program makes).
C37_DecodeByLettersAlone ==
  lastResp.ep = "localDecodeFromLetters"
    => lastResp.code.out = FirstAnagram(lastResp.code.in)

\* the letters n-t-T, neither in the order nor in the case of the candidate,
\* have been resolved to TNT
C37_Witness ==
  /\ lastResp.ep = "localDecodeFromLetters"
  /\ lastResp.code.in = <<"n", "t", "T">>
  /\ lastResp.code.out = <<"T", "N", "T">>


\* the words of the input, and those that hold a letter or a digit
WordsOf(value) == SplitWhitespace(Trim(value))
HasAlnum(word) == \E i \in 1..Len(word) : IsAlnum(word[i])
TokenWords(value) == SelectSeq(WordsOf(value), HasAlnum)

\* the input has punctuation at its start or at its end, or several words
EdgePunctuationOrSeveralWords(value) ==
  LET text == Trim(value)
  IN  /\ text # <<>>
      /\ \/ ~IsAlnum(text[1])
         \/ ~IsAlnum(text[Len(text)])
         \/ Len(WordsOf(value)) > 1

\* the first word of the input that holds a letter or a digit, without its
\* other characters and in upper case
FirstAlnumToken(value) == ToUpperCase(KeepAlnum(TokenWords(value)[1]))

\* C38: for an input that has punctuation at its start or end, or several
\* words, and that holds a letter or a digit, the result of toSingleWordUpper
\* is the first alphanumeric token of the input in upper case (checked under
\* SpecWords).
C38_FirstAlnumTokenUpper ==
  (/\ lastResp.ep = "toSingleWordUpper"
   /\ EdgePunctuationOrSeveralWords(lastResp.code.in)
   /\ TokenWords(lastResp.code.in) # <<>>)
    => lastResp.code.out = FirstAlnumToken(lastResp.code.in)


\* the step applies toSingleWordUpper to the result of the call before
AppliedAgain ==
  /\ lastResp.ep = "toSingleWordUpper"
  /\ lastResp'.ep = "toSingleWordUpper"
  /\ lastResp'.code.in = lastResp.code.out

\* C39: toSingleWordUpper is idempotent: applied to its own result it returns
\* that result (checked under SpecWords).
C39_ToSingleWordUpperIdempotent ==
  [][AppliedAgain => lastResp'.code.out = lastResp.code.out]_vars

\* toSingleWordUpper has been applied to the UNKNOWN it returned for an input
\* without letter or digit, and to the B1 it returned for 'b1!'
C39_Witness ==
  /\ lastResp.ep = "toSingleWordUpper"
  /\ lastResp.code.in \in {UNKNOWN, <<"B", "1">>}
  /\ lastResp.code.out = lastResp.code.in
=============================================================================
